---- MODULE Spec2Model ----
(***************************************************************************)
(* A model of the ole-rs compound-file (CFB / OLE2) reader: OleFile::parse *)
(* and the read operations of the resulting file object.                   *)
(*                                                                         *)
(* Representation.  A byte is a number in 0..255 and the byte source is a  *)
(* sequence of bytes.  A u16 is a number.  A u32 is the pair <<hi, lo>> of *)
(* its 16-bit halves and a u64 the 4-tuple of its 16-bit limbs, most       *)
(* significant first, so that 0xFFFFFFFE and 64-bit sizes keep their full  *)
(* width.  Option<T> is <<>> (None) or <<x>> (Some(x)).  A String is the   *)
(* sequence of its UTF-16 code units.  A call ends in one of               *)
(*   [kind |-> "Ok", ...]       the value returned,                        *)
(*   [kind |-> "Err", err ...]  an Error value returned,                   *)
(*   [kind |-> "Panic", ...]    a Rust panic (index out of range, unwrap   *)
(*                              of None, expect of Err): no value returned,*)
(*   [kind |-> "Hang", ...]     a loop or recursion that revisits its own  *)
(*                              control state and so never returns.        *)
(***************************************************************************)
EXTENDS Integers, Sequences, FiniteSets, TLC

VARIABLES read, pc, file, error, ret

vars == <<read, pc, file, error, ret>>

-----------------------------------------------------------------------------
(* constants.rs *)

HEADER_LENGTH == 512

MAGIC_BYTES == <<208, 207, 17, 224, 161, 177, 26, 225>>

\* a slip: the two bytes in the other order
CORRECT_MINOR_VERSION_swapped == <<0, 62>>

CORRECT_MINOR_VERSION == <<62, 0>>

MAJOR_VERSION_3_VALUE == 3

MAJOR_VERSION_3 == <<3, 0>>

MAJOR_VERSION_4 == <<4, 0>>

SECTOR_SIZE_VERSION_3 == <<9, 0>>

SECTOR_SIZE_VERSION_4 == <<12, 0>>

CORRECT_STANDARD_STREAM_MIN_SIZE == <<0, 16, 0, 0>>

CHAIN_END == <<65535, 65534>>

UNALLOCATED_SECTOR == <<65535, 65535>>

SIZE_OF_DIRECTORY_ENTRY == 128

NODE_COLOR_RED == <<0>>

NODE_COLOR_BLACK == <<1>>

OBJECT_TYPE_UNKNOWN_OR_UNALLOCATED == <<0>>

OBJECT_TYPE_STORAGE == <<1>>

OBJECT_TYPE_STREAM == <<2>>

OBJECT_TYPE_ROOT_STORAGE == <<5>>

MAX_REG_STREAM_ID_BYTES == <<250, 255, 255, 255>>

NO_STREAM == <<255, 255, 255, 255>>

MINI_SECTOR_LEN == 64

-----------------------------------------------------------------------------
(* Fixed-width integers and slices *)

\* &s[a..b] of Rust: the bytes at 0-based positions a .. b-1.
Slice(s, a, b) == SubSeq(s, a + 1, b)

Zeros(n) == [i \in 1..n |-> 0]

u16_from_le_bytes(b) == b[1] + 256 * b[2]

u32_from_le_bytes(b) == <<b[3] + 256 * b[4], b[1] + 256 * b[2]>>

u64_from_le_bytes(b) ==
    <<b[7] + 256 * b[8], b[5] + 256 * b[6], b[3] + 256 * b[4], b[1] + 256 * b[2]>>

MAX_REG_STREAM_ID_VALUE == u32_from_le_bytes(MAX_REG_STREAM_ID_BYTES)

\* a > b on u32
U32Gt(a, b) == a[1] > b[1] \/ (a[1] = b[1] /\ a[2] > b[2])

\* (x as usize) < n, for a u32 x and a length n below 2^16
U32Below(x, n) == x[1] = 0 /\ x[2] < n

\* x as usize, where U32Below(x, n) holds
AsIndex(x) == x[2]

\* a u32 widened to u64
U32AsU64(x) == <<0, 0, x[1], x[2]>>

\* a < b on u64
RECURSIVE LimbsLess(_, _)
LimbsLess(a, b) ==
    IF a = <<>> THEN FALSE
    ELSE IF Head(a) # Head(b) THEN Head(a) < Head(b)
    ELSE LimbsLess(Tail(a), Tail(b))

U64Less(a, b) == LimbsLess(a, b)

U64IsZero(a) == a = <<0, 0, 0, 0>>

\* a slip: the remainder is taken modulo 4
U64Mod64_by4(a) == a[4] % 4

\* a % 64 on u64 (64 divides 2^16)
U64Mod64(a) == a[4] % 64

\* n == a, for a count n below 2^16 and a u64 a
NatEqU64(n, a) == a[1] = 0 /\ a[2] = 0 /\ a[3] = 0 /\ a[4] = n

\* min(len, a as usize), for a length len below 2^16 and a u64 a
MinLenU64(len, a) ==
    IF a[1] = 0 /\ a[2] = 0 /\ a[3] = 0 /\ a[4] < len THEN a[4] ELSE len

RECURSIVE Pow2(_)
Pow2(n) == IF n = 0 THEN 1 ELSE 2 * Pow2(n - 1)

None == <<>>

Some(x) == <<x>>

IsSome(o) == o # <<>>

Unwrap(o) == o[1]

-----------------------------------------------------------------------------
(* Results *)

Ok(v) == [kind |-> "Ok", val |-> v]

Err(e) == [kind |-> "Err", err |-> e]

Panic(why) == [kind |-> "Panic", why |-> why]

Hang(why) == [kind |-> "Hang", why |-> why]

HeaderParsing(field) ==
    Err([type |-> "OleInvalidHeader", sub |-> "Parsing", field |-> field])

\* `r?` followed by F of the unwrapped value: whatever is not Ok (an Error, a
\* panic, a call that never returns) ends the caller with it
Try(r, F(_)) == IF r.kind # "Ok" THEN r ELSE F(r.val)

\* match r { Ok(v) => OnOk(v), other => Otherwise(other) }
Match(r, OnOk(_), Otherwise(_)) == IF r.kind = "Ok" THEN OnOk(r.val) ELSE Otherwise(r)

-----------------------------------------------------------------------------
(* header.rs *)

\* a slip in the error's payload: the expected bytes instead of the bytes found
CheckSignature_expected(signature) ==
    IF signature # MAGIC_BYTES
    THEN Err([type |-> "OleInvalidHeader", sub |-> "WrongMagicBytes",
              found |-> MAGIC_BYTES])
    ELSE Ok(signature)

\* a slip: the first eight bytes are not looked at
CheckSignature_skipped(signature) == Ok(signature)

\* parse_raw_header, the check of the first eight bytes
CheckSignature(signature) ==
    IF signature # MAGIC_BYTES
    THEN Err([type |-> "OleInvalidHeader", sub |-> "WrongMagicBytes",
              found |-> signature])
    ELSE Ok(signature)

\* parse_raw_header: `bytes` is what read.read(&mut header) delivered.
parse_raw_header(bytes) ==
    IF Len(bytes) # HEADER_LENGTH
    THEN Err([type |-> "OleInvalidHeader", sub |-> "NotEnoughBytes",
              expected |-> HEADER_LENGTH, found |-> Len(bytes)])
    ELSE LET header == bytes
             major_version == Slice(header, 26, 28)
             sector_size == Slice(header, 30, 32)
         IN
         Try(CheckSignature(Slice(header, 0, 8)), LAMBDA signature :
         IF Slice(header, 8, 24) # Zeros(16)
         THEN HeaderParsing("class_identifier")
         ELSE IF Slice(header, 24, 26) # CORRECT_MINOR_VERSION
         THEN HeaderParsing("minor_version")
         ELSE IF major_version \notin {MAJOR_VERSION_3, MAJOR_VERSION_4}
         THEN HeaderParsing("major_version")
         ELSE IF Slice(header, 28, 30) # <<254, 255>>
         THEN HeaderParsing("byte_order_identifier")
         ELSE IF ~ \/ (major_version = MAJOR_VERSION_3
                         /\ sector_size = SECTOR_SIZE_VERSION_3)
                   \/ (major_version = MAJOR_VERSION_4
                         /\ sector_size = SECTOR_SIZE_VERSION_4)
         THEN HeaderParsing("sector_size")
         ELSE IF Slice(header, 32, 34) # <<6, 0>>
         THEN HeaderParsing("mini_sector_size")
         ELSE IF Slice(header, 34, 40) # Zeros(6)
         THEN HeaderParsing("first_reserved")
         ELSE IF Slice(header, 40, 44) # Zeros(4) /\ major_version = MAJOR_VERSION_3
         THEN HeaderParsing("directory_sectors_len")
         ELSE IF Slice(header, 56, 60) # CORRECT_STANDARD_STREAM_MIN_SIZE
         THEN HeaderParsing("standard_stream_min_size")
         ELSE Ok([minor_version |-> Slice(header, 24, 26),
                  major_version |-> major_version,
                  sector_size |-> sector_size,
                  mini_sector_size |-> Slice(header, 32, 34),
                  directory_sectors_len |-> Slice(header, 40, 44),
                  sector_allocation_table_len |-> Slice(header, 44, 48),
                  sector_allocation_table_first_sector |-> Slice(header, 48, 52),
                  standard_stream_min_size |-> Slice(header, 56, 60),
                  short_sector_allocation_table_first_sector |-> Slice(header, 60, 64),
                  short_sector_allocation_table_len |-> Slice(header, 64, 68),
                  master_sector_allocation_table_first_sector |-> Slice(header, 68, 72),
                  master_sector_allocation_table_len |-> Slice(header, 72, 76),
                  sector_allocation_table_head |->
                      [i \in 1..109 |->
                          u32_from_le_bytes(Slice(header, 76 + 4 * (i - 1), 76 + 4 * i))]]))

\* OleHeader::from_raw
OleHeader_from_raw(raw) ==
    [major_version |-> u16_from_le_bytes(raw.major_version),
     minor_version |-> u16_from_le_bytes(raw.minor_version),
     sector_size |-> Pow2(u16_from_le_bytes(raw.sector_size)) % 65536,
     mini_sector_size |-> Pow2(u16_from_le_bytes(raw.mini_sector_size)) % 65536,
     directory_sectors_len |-> u32_from_le_bytes(raw.directory_sectors_len),
     standard_stream_min_size |-> u32_from_le_bytes(raw.standard_stream_min_size),
     sector_allocation_table_first_sector |->
         u32_from_le_bytes(raw.sector_allocation_table_first_sector),
     sector_allocation_table_len |-> u32_from_le_bytes(raw.sector_allocation_table_len),
     short_sector_allocation_table_first_sector |->
         u32_from_le_bytes(raw.short_sector_allocation_table_first_sector),
     short_sector_allocation_table_len |->
         u32_from_le_bytes(raw.short_sector_allocation_table_len),
     master_sector_allocation_table_first_sector |->
         u32_from_le_bytes(raw.master_sector_allocation_table_first_sector),
     master_sector_allocation_table_len |->
         u32_from_le_bytes(raw.master_sector_allocation_table_len),
     sector_allocation_table_head |-> raw.sector_allocation_table_head]

-----------------------------------------------------------------------------
(* directory.rs *)

DirectoryEntryInvalid(field) ==
    Err([type |-> "OleInvalidDirectoryEntry", field |-> field])

\* DirectoryEntryRaw::parse: the fixed-offset fields of one 128-byte slab.
DirectoryEntryRaw_parse(unparsed_entry) ==
    [name |-> Slice(unparsed_entry, 0, 64),
     name_len |-> Slice(unparsed_entry, 64, 66),
     object_type |-> Slice(unparsed_entry, 66, 67),
     color_flag |-> Slice(unparsed_entry, 67, 68),
     left_sibling_id |-> Slice(unparsed_entry, 68, 72),
     right_sibling_id |-> Slice(unparsed_entry, 72, 76),
     child_id |-> Slice(unparsed_entry, 76, 80),
     class_id |-> Slice(unparsed_entry, 80, 96),
     state_bits |-> Slice(unparsed_entry, 96, 100),
     starting_sector_location |-> Slice(unparsed_entry, 116, 120),
     stream_size |-> Slice(unparsed_entry, 120, 128)]

IsHighSurrogate(u) == u >= 55296 /\ u <= 56319

IsLowSurrogate(u) == u >= 56320 /\ u <= 57343

\* String::from_utf16 succeeds: every surrogate is half of a well-formed pair.
RECURSIVE Utf16Valid(_)
Utf16Valid(units) ==
    IF units = <<>> THEN TRUE
    ELSE IF IsHighSurrogate(Head(units))
    THEN /\ Len(units) >= 2
         /\ IsLowSurrogate(units[2])
         /\ Utf16Valid(Tail(Tail(units)))
    ELSE IF IsLowSurrogate(Head(units)) THEN FALSE
    ELSE Utf16Valid(Tail(units))

\* String::pop: drops the last char (one code unit, or a surrogate pair).
StringPop(units) ==
    IF units = <<>> THEN units
    ELSE IF IsLowSurrogate(units[Len(units)]) THEN SubSeq(units, 1, Len(units) - 2)
    ELSE SubSeq(units, 1, Len(units) - 1)

\* from_raw, the name: Ok(name), Err(FromUtf16) or a panic of the slice / pair index.
DecodeName(raw) ==
    LET name_len == u16_from_le_bytes(raw.name_len) IN
    IF name_len > 64 THEN Panic("name[0..name_len]: range end out of bounds")
    ELSE IF name_len % 2 # 0 THEN Panic("pair[1]: index out of bounds")
    ELSE LET name_raw == [k \in 1..(name_len \div 2) |->
                             u16_from_le_bytes(Slice(raw.name, 2 * (k - 1), 2 * k))]
         IN IF ~Utf16Valid(name_raw) THEN Err([type |-> "FromUtf16"])
            ELSE Ok(StringPop(name_raw))

\* from_raw, one of left_sibling_id / right_sibling_id / child_id.
DecodeStreamId(bytes, field) ==
    IF bytes = NO_STREAM THEN Ok(None)
    ELSE LET potential_value == u32_from_le_bytes(bytes) IN
         IF U32Gt(potential_value, MAX_REG_STREAM_ID_VALUE)
         THEN DirectoryEntryInvalid(field)
         ELSE Ok(Some(potential_value))

\* a slip: the raw field is kept for every object type
DecodeStartingSector_keep(object_type, bytes) == Some(u32_from_le_bytes(bytes))

\* from_raw, starting_sector_location.
DecodeStartingSector(object_type, bytes) ==
    IF object_type = "Storage" THEN None ELSE Some(u32_from_le_bytes(bytes))

\* a slip: the eight bytes are used whatever the version
DecodeStreamSize_full(major_version, bytes) == u64_from_le_bytes(bytes)

\* from_raw, stream_size: the upper four bytes are zeroed in a version-3 file.
DecodeStreamSize(major_version, bytes) ==
    IF major_version = MAJOR_VERSION_3_VALUE
    THEN u64_from_le_bytes(SubSeq(bytes, 1, 4) \o <<0, 0, 0, 0>>)
    ELSE u64_from_le_bytes(bytes)

\* the digits of {:x}
LowerHexDigits ==
    <<"0", "1", "2", "3", "4", "5", "6", "7", "8", "9", "a", "b", "c", "d", "e", "f">>

\* char::to_uppercase on a hex digit
DigitToUppercase(c) ==
    CASE c = "a" -> "A" [] c = "b" -> "B" [] c = "c" -> "C"
      [] c = "d" -> "D" [] c = "e" -> "E" [] c = "f" -> "F" [] OTHER -> c

\* {:02x} of a byte, upper-cased
Hex02(byte) ==
    DigitToUppercase(LowerHexDigits[(byte \div 16) + 1])
        \o DigitToUppercase(LowerHexDigits[(byte % 16) + 1])

\* the class id of an entry: absent when the 16 bytes are zero, else the string
\* "{:08x}-{:04x}-{:04x}-{:02x}{:02x}-{:02x}...{:02x}" of an i32 and two i16
\* read little-endian (a signed value prints as its two's complement) and of
\* the eight remaining bytes, upper-cased
FormatClassId(bytes) ==
    IF bytes = Zeros(16) THEN None
    ELSE Some(Hex02(bytes[4]) \o Hex02(bytes[3]) \o Hex02(bytes[2]) \o Hex02(bytes[1])
              \o "-" \o Hex02(bytes[6]) \o Hex02(bytes[5])
              \o "-" \o Hex02(bytes[8]) \o Hex02(bytes[7])
              \o "-" \o Hex02(bytes[9]) \o Hex02(bytes[10])
              \o "-" \o Hex02(bytes[11]) \o Hex02(bytes[12]) \o Hex02(bytes[13])
              \o Hex02(bytes[14]) \o Hex02(bytes[15]) \o Hex02(bytes[16]))

\* the two errors of the size checks, with the text they carry
StorageSizeNotZero ==
    Err([type |-> "OleInvalidDirectoryEntry", field |-> "stream_size",
         why |-> "storage object type has non-zero stream size"])

RootSizeNotTiled ==
    Err([type |-> "OleInvalidDirectoryEntry", field |-> "stream_size",
         why |-> "root storage object type must have stream size % 64 === 0"])

\* a slip: the size of a Storage entry is not looked at
StreamSizeCheck_root_only(object_type, stream_size) ==
    IF object_type = "RootStorage" /\ U64Mod64(stream_size) # 0
    THEN RootSizeNotTiled
    ELSE Ok(stream_size)

\* from_raw, the two size checks.
StreamSizeCheck(object_type, stream_size) ==
    IF ~U64IsZero(stream_size) /\ object_type = "Storage"
    THEN StorageSizeNotZero
    ELSE IF object_type = "RootStorage" /\ U64Mod64(stream_size) # 0
    THEN RootSizeNotTiled
    ELSE Ok(stream_size)

\* DirectoryEntry::from_raw.  The timestamps (decoded by an external crate, never
\* an error) are left out.
DirectoryEntry_from_raw(ole_file_header, raw, index) ==
    IF raw.object_type = OBJECT_TYPE_UNKNOWN_OR_UNALLOCATED
    THEN Err([type |-> "OleUnknownOrUnallocatedDirectoryEntry"])
    ELSE IF raw.object_type \notin
              {OBJECT_TYPE_ROOT_STORAGE, OBJECT_TYPE_STORAGE, OBJECT_TYPE_STREAM}
    THEN DirectoryEntryInvalid("object_type")
    ELSE
    LET object_type == IF raw.object_type = OBJECT_TYPE_ROOT_STORAGE THEN "RootStorage"
                       ELSE IF raw.object_type = OBJECT_TYPE_STORAGE THEN "Storage"
                       ELSE "Stream"
    IN
    Try(DecodeName(raw), LAMBDA name :
    IF raw.color_flag \notin {NODE_COLOR_RED, NODE_COLOR_BLACK}
    THEN DirectoryEntryInvalid("node_color")
    ELSE
    Try(DecodeStreamId(raw.left_sibling_id, "left_sibling_id"), LAMBDA left_sibling_id :
    Try(DecodeStreamId(raw.right_sibling_id, "right_sibling_id"), LAMBDA right_sibling_id :
    Try(DecodeStreamId(raw.child_id, "child_id"), LAMBDA child_id :
    Try(StreamSizeCheck(object_type,
            DecodeStreamSize(ole_file_header.major_version, raw.stream_size)),
        LAMBDA stream_size :
        Ok([index |-> index,
            object_type |-> object_type,
            name |-> name,
            color |-> IF raw.color_flag = NODE_COLOR_RED THEN "Red" ELSE "Black",
            left_sibling_id |-> left_sibling_id,
            right_sibling_id |-> right_sibling_id,
            child_id |-> child_id,
            class_id |-> FormatClassId(raw.class_id),
            state_bits |-> raw.state_bits,
            starting_sector_location |->
                DecodeStartingSector(object_type, raw.starting_sector_location),
            stream_size |-> stream_size]))))))

-----------------------------------------------------------------------------
(* lib.rs: the constructor *)

\* chunks_exact(4) read as little-endian u32s
DecodeU32s(bytes) ==
    [i \in 1..(Len(bytes) \div 4) |-> u32_from_le_bytes(SubSeq(bytes, 4 * i - 3, 4 * i))]

\* a slip: a short final read ends the loop like an empty one
ReadSectors_lenient(body, sector_size) ==
    Ok([k \in 1..(Len(body) \div sector_size) |->
           SubSeq(body, (k - 1) * sector_size + 1, k * sector_size)])

\* parse, the sector loop: full sectors are pushed until a read returns 0 bytes;
\* a shorter non-empty read is an error.
ReadSectors(body, sector_size) ==
    LET n == Len(body) \div sector_size IN
    IF Len(body) % sector_size # 0
    THEN Err([type |-> "OleUnexpectedEof", sector |-> n])
    ELSE Ok([k \in 1..n |-> SubSeq(body, (k - 1) * sector_size + 1, k * sector_size)])

\* a slip: an unallocated or chain-end entry is skipped and the loop goes on
RECURSIVE FatFromHead_skipping(_, _, _, _)
FatFromHead_skipping(head, sectors, i, fat) ==
    IF i > Len(head) THEN Ok(fat)
    ELSE IF head[i] = UNALLOCATED_SECTOR \/ head[i] = CHAIN_END
    THEN FatFromHead_skipping(head, sectors, i + 1, fat)
    ELSE IF ~U32Below(head[i], Len(sectors))
    THEN Panic("sectors[sector_index]: index out of bounds")
    ELSE FatFromHead_skipping(head, sectors, i + 1,
                              fat \o DecodeU32s(sectors[AsIndex(head[i]) + 1]))

\* initialize_sector_allocation_table, the loop over the header's DIFAT entries
RECURSIVE FatFromHead(_, _, _, _)
FatFromHead(head, sectors, i, fat) ==
    IF i > Len(head) THEN Ok(fat)
    ELSE IF head[i] = UNALLOCATED_SECTOR \/ head[i] = CHAIN_END THEN Ok(fat)
    ELSE IF ~U32Below(head[i], Len(sectors))
    THEN Panic("sectors[sector_index]: index out of bounds")
    ELSE FatFromHead(head, sectors, i + 1,
                     fat \o DecodeU32s(sectors[AsIndex(head[i]) + 1]))

initialize_sector_allocation_table(self) ==
    Try(FatFromHead(self.header.sector_allocation_table_head, self.sectors, 1, <<>>),
        LAMBDA sector_allocation_table :
        IF self.header.master_sector_allocation_table_len # <<0, 0>>
        THEN Err([type |-> "CurrentlyUnimplemented"])
        ELSE Ok([self EXCEPT !.sector_allocation_table = sector_allocation_table]))

\* loop { if next == CHAIN_END { break } else { data.extend(sectors[next]) }
\*        next = table[next] }
\* `seen` holds the sector ids already visited: the loop's only control state is
\* `next`, so a revisit never ends.
RECURSIVE WalkChain(_, _, _, _, _)
WalkChain(sectors, table, next, seen, data) ==
    IF next = CHAIN_END THEN Ok(data)
    ELSE IF next \in seen THEN Hang("sector chain cycle")
    ELSE IF ~U32Below(next, Len(sectors))
    THEN Panic("sectors[next]: index out of bounds")
    ELSE IF ~U32Below(next, Len(table))
    THEN Panic("sector_allocation_table[next]: index out of bounds")
    ELSE WalkChain(sectors, table, table[AsIndex(next) + 1], seen \cup {next},
                   data \o sectors[AsIndex(next) + 1])

initialize_short_sector_allocation_table(self) ==
    IF \/ self.header.short_sector_allocation_table_len = <<0, 0>>
       \/ self.header.short_sector_allocation_table_first_sector = CHAIN_END
    THEN Ok(self)
    ELSE Try(WalkChain(self.sectors, self.sector_allocation_table,
                       self.header.short_sector_allocation_table_first_sector, {}, <<>>),
             LAMBDA short_sector_allocation_table_raw_data :
             Ok([self EXCEPT !.short_sector_allocation_table =
                                 DecodeU32s(short_sector_allocation_table_raw_data)]))

\* initialize_directory_stream, the walk: the first sector is read unconditionally,
\* then loop { next = table[next]; if next == CHAIN_END { break }
\*             else { data.extend(sectors[next]) } }
RECURSIVE DirectoryWalk(_, _, _, _, _)
DirectoryWalk(sectors, table, cur, seen, data) ==
    IF ~U32Below(cur, Len(table))
    THEN Panic("sector_allocation_table[next_directory_index]: index out of bounds")
    ELSE LET next == table[AsIndex(cur) + 1] IN
         IF next = CHAIN_END THEN Ok(data)
         ELSE IF ~U32Below(next, Len(sectors))
         THEN Panic("sectors[next_directory_index]: index out of bounds")
         ELSE IF next \in seen THEN Hang("directory chain cycle")
         ELSE DirectoryWalk(sectors, table, next, seen \cup {next},
                            data \o sectors[AsIndex(next) + 1])

\* a slip: an unallocated slab ends the loop like any other error
RECURSIVE DecodeEntries_strict(_, _, _, _)
DecodeEntries_strict(header, data, index, entries) ==
    IF index * SIZE_OF_DIRECTORY_ENTRY >= Len(data) THEN Ok(entries)
    ELSE Try(DirectoryEntry_from_raw(
                 header,
                 DirectoryEntryRaw_parse(
                     SubSeq(data, index * SIZE_OF_DIRECTORY_ENTRY + 1,
                            (index + 1) * SIZE_OF_DIRECTORY_ENTRY)),
                 index),
             LAMBDA directory_entry :
                 DecodeEntries_strict(header, data, index + 1,
                                      Append(entries, directory_entry)))

\* initialize_directory_entries, the loop over the 128-byte slabs
RECURSIVE DecodeEntries(_, _, _, _)
DecodeEntries(header, data, index, entries) ==
    IF index * SIZE_OF_DIRECTORY_ENTRY >= Len(data) THEN Ok(entries)
    ELSE LET unparsed_entry == SubSeq(data, index * SIZE_OF_DIRECTORY_ENTRY + 1,
                                      (index + 1) * SIZE_OF_DIRECTORY_ENTRY)
         IN Match(DirectoryEntry_from_raw(header, DirectoryEntryRaw_parse(unparsed_entry),
                                          index),
                  LAMBDA directory_entry :
                      DecodeEntries(header, data, index + 1,
                                    Append(entries, directory_entry)),
                  LAMBDA other :
                      IF /\ other.kind = "Err"
                         /\ other.err.type = "OleUnknownOrUnallocatedDirectoryEntry"
                      THEN DecodeEntries(header, data, index + 1, entries)
                      ELSE other)

initialize_directory_entries(self) ==
    IF Len(self.directory_stream_data) % SIZE_OF_DIRECTORY_ENTRY # 0
    THEN DirectoryEntryInvalid("directory_stream_size")
    ELSE Try(DecodeEntries(self.header, self.directory_stream_data, 0, <<>>),
             LAMBDA directory_entries :
             Ok([self EXCEPT !.directory_entries = directory_entries]))

initialize_directory_stream(self) ==
    LET first == self.header.sector_allocation_table_first_sector IN
    IF ~U32Below(first, Len(self.sectors))
    THEN Panic("sectors[next_directory_index]: index out of bounds")
    ELSE Try(DirectoryWalk(self.sectors, self.sector_allocation_table, first,
                           {first}, self.sectors[AsIndex(first) + 1]),
             LAMBDA directory_stream_data :
             initialize_directory_entries(
                 [self EXCEPT !.directory_stream_data = directory_stream_data]))

\* chunks_exact(64) of the first min(len, mini_stream_size) bytes
MiniTiles(raw, mini_stream_size) ==
    [k \in 1..(MinLenU64(Len(raw), mini_stream_size) \div MINI_SECTOR_LEN) |->
        SubSeq(raw, (k - 1) * MINI_SECTOR_LEN + 1, k * MINI_SECTOR_LEN)]

initialize_mini_stream(self) ==
    IF self.directory_entries = <<>>
    THEN Panic("directory_entries[0]: index out of bounds")
    ELSE LET root_entry == self.directory_entries[1] IN
         IF root_entry.starting_sector_location = None THEN Ok(self)
         ELSE Try(WalkChain(self.sectors, self.sector_allocation_table,
                            Unwrap(root_entry.starting_sector_location), {}, <<>>),
                  LAMBDA raw_mini_stream_data :
                  Ok([self EXCEPT !.mini_stream =
                         MiniTiles(raw_mini_stream_data, root_entry.stream_size)]))

-----------------------------------------------------------------------------
(* lib.rs: the read operations *)

\* a slip: a name is listed once however many entries carry it
RECURSIVE list_object_unique(_, _)
list_object_unique(directory_entries, object_type) ==
    IF directory_entries = <<>> THEN <<>>
    ELSE LET entry == Head(directory_entries)
             rest == list_object_unique(Tail(directory_entries), object_type)
         IN IF /\ entry.object_type = object_type
               /\ \A i \in 1..Len(rest) : rest[i] # entry.name
            THEN <<entry.name>> \o rest ELSE rest

\* list_object: the names of the entries of the given type, in array order
RECURSIVE list_object(_, _)
list_object(directory_entries, object_type) ==
    IF directory_entries = <<>> THEN <<>>
    ELSE LET entry == Head(directory_entries)
             rest == list_object(Tail(directory_entries), object_type)
         IN IF entry.object_type = object_type THEN <<entry.name>> \o rest ELSE rest

list_streams(self) == list_object(self.directory_entries, "Stream")

list_storage(self) == list_object(self.directory_entries, "Storage")

\* root: &self.directory_entries[0]
root(self) ==
    IF self.directory_entries = <<>>
    THEN Panic("directory_entries[0]: index out of bounds")
    ELSE Ok(self.directory_entries[1])

\* directory_entries.get(id as usize).unwrap(): the position (from 1) of the entry
LookupId(directory_entries, id) ==
    IF U32Below(id, Len(directory_entries)) THEN Ok(AsIndex(id) + 1)
    ELSE Panic("directory_entries.get(id).unwrap(): None")

\* .iter().find(|entry| entry.name == first_entry)
FirstNamed(directory_entries, name) ==
    LET hits == {i \in 1..Len(directory_entries) : directory_entries[i].name = name} IN
    IF hits = {} THEN None
    ELSE Some(CHOOSE i \in hits : \A j \in hits : i <= j)

\* find_stream with parent = Some(entry at position `parent`), and its for loop
\* over entries_to_search.  An entry is named by its position in the array.
\* `stack` holds the (path, parent) pairs of the calls in progress: a call that
\* repeats one of them recurses without end.
RECURSIVE find_stream_in(_, _, _, _)
RECURSIVE SearchEntries(_, _, _, _)
SearchEntries(directory_entries, stream_path, to_search, stack) ==
    IF to_search = <<>> THEN Ok(None)
    ELSE LET entry == Head(to_search)[1]
             is_child == Head(to_search)[2]
             remainder == Tail(stream_path)
         IN IF directory_entries[entry].name = stream_path[1]
            THEN IF remainder = <<>> THEN Ok(Some(entry))
                 ELSE IF is_child
                 THEN find_stream_in(directory_entries, remainder, entry, stack)
                 ELSE find_stream_in(directory_entries, stream_path, entry, stack)
            ELSE Try(find_stream_in(directory_entries, stream_path, entry, stack),
                     LAMBDA found_entry :
                     IF found_entry # None THEN Ok(found_entry)
                     ELSE SearchEntries(directory_entries, stream_path,
                                        Tail(to_search), stack))

find_stream_in(directory_entries, stream_path, parent, stack) ==
    IF stream_path = <<>> THEN Panic("stream_path[0]: index out of bounds")
    ELSE IF <<stream_path, parent>> \in stack THEN Hang("unbounded recursion")
    ELSE
    LET p == directory_entries[parent]
        child == IF IsSome(p.child_id)
                 THEN LookupId(directory_entries, Unwrap(p.child_id)) ELSE Ok(0)
        left == IF IsSome(p.left_sibling_id)
                THEN LookupId(directory_entries, Unwrap(p.left_sibling_id)) ELSE Ok(0)
        right == IF IsSome(p.right_sibling_id)
                 THEN LookupId(directory_entries, Unwrap(p.right_sibling_id)) ELSE Ok(0)
    IN
    Try(child, LAMBDA c :
    Try(left, LAMBDA l :
    Try(right, LAMBDA r :
        SearchEntries(directory_entries, stream_path,
            (IF c # 0 THEN <<(<<c, TRUE>>)>> ELSE <<>>)
            \o (IF l # 0 THEN <<(<<l, FALSE>>)>> ELSE <<>>)
            \o (IF r # 0 THEN <<(<<r, FALSE>>)>> ELSE <<>>),
            stack \cup {<<stream_path, parent>>}))))

\* find_stream(stream_path, None)
find_stream(self, stream_path) ==
    IF stream_path = <<>> THEN Panic("stream_path[0]: index out of bounds")
    ELSE LET found == FirstNamed(self.directory_entries, stream_path[1]) IN
         IF found = None THEN Ok(None)
         ELSE IF Tail(stream_path) = <<>> THEN Ok(found)
         ELSE find_stream_in(self.directory_entries, Tail(stream_path),
                             Unwrap(found), {})

\* the inner for loop of open_stream: bytes of one block are pushed until
\* collected_bytes, incremented after each push, equals stream_size.
EmitBlock(block, collected_bytes, stream_size) ==
    LET stop == {k \in 1..Len(block) : NatEqU64(collected_bytes + k, stream_size)} IN
    IF stop = {} THEN block
    ELSE SubSeq(block, 1, CHOOSE k \in stop : TRUE)

\* the outer loop of open_stream over `blocks` (mini-stream tiles or sectors)
RECURSIVE ReadChain(_, _, _, _, _, _)
ReadChain(blocks, table, next_sector, stream_size, seen, data) ==
    IF next_sector = CHAIN_END THEN Ok(data)
    ELSE IF next_sector \in seen THEN Hang("sector chain cycle")
    ELSE IF ~U32Below(next_sector, Len(blocks))
    THEN Panic("blocks[next_sector]: index out of bounds")
    ELSE IF ~U32Below(next_sector, Len(table))
    THEN Panic("table[next_sector]: index out of bounds")
    ELSE ReadChain(blocks, table, table[AsIndex(next_sector) + 1], stream_size,
                   seen \cup {next_sector},
                   data \o EmitBlock(blocks[AsIndex(next_sector) + 1], Len(data),
                                     stream_size))

open_stream(self, stream_path) ==
    Try(find_stream(self, stream_path), LAMBDA found :
    IF found = None THEN Err([type |-> "OleDirectoryEntryNotFound"])
    ELSE LET directory_entry == self.directory_entries[Unwrap(found)] IN
         IF directory_entry.object_type # "Stream"
         THEN Err([type |-> "OleDirectoryEntryNotFound"])
         ELSE IF U64Less(directory_entry.stream_size,
                         U32AsU64(self.header.standard_stream_min_size))
         THEN ReadChain(self.mini_stream, self.short_sector_allocation_table,
                        Unwrap(directory_entry.starting_sector_location),
                        directory_entry.stream_size, {}, <<>>)
         ELSE ReadChain(self.sectors, self.sector_allocation_table,
                        Unwrap(directory_entry.starting_sector_location),
                        directory_entry.stream_size, {}, <<>>))

-----------------------------------------------------------------------------
(* ftype.rs and encryption/ *)

OLE_FILE_TYPE_MAP ==
    {<<"00020906-0000-0000-C000-000000000046", "Word97">>,
     <<"00020900-0000-0000-C000-000000000046", "Word6">>,
     <<"00020820-0000-0000-C000-000000000046", "Excel97">>,
     <<"00020810-0000-0000-C000-000000000046", "Excel5">>,
     <<"64818D10-4F9B-11CF-86EA-00AA00B929E8", "Powerpoint97">>}

file_type(root_entry) ==
    IF root_entry.class_id = None THEN "Generic"
    ELSE LET hits == {m \in OLE_FILE_TYPE_MAP : m[1] = Unwrap(root_entry.class_id)} IN
         IF hits = {} THEN "Generic" ELSE (CHOOSE m \in hits : TRUE)[2]

\* "worddocument"
WORD_DOC_STR == <<119, 111, 114, 100, 100, 111, 99, 117, 109, 101, 110, 116>>

\* "powerpoint document"
POWER_POINT_STR ==
    <<112, 111, 119, 101, 114, 112, 111, 105, 110, 116, 32,
      100, 111, 99, 117, 109, 101, 110, 116>>

\* "workbook"
EXCEL_STR == <<119, 111, 114, 107, 98, 111, 111, 107>>

\* "encryptioninfo"
OOXML_DOC_STR == <<101, 110, 99, 114, 121, 112, 116, 105, 111, 110, 105, 110, 102, 111>>

\* str::to_lowercase, on the ASCII letters (the names of the model are ASCII)
to_lowercase(units) ==
    [i \in 1..Len(units) |-> IF units[i] >= 65 /\ units[i] <= 90 THEN units[i] + 32
                             ELSE units[i]]

\* a slip: the flag is taken from the first byte of the field
WordHeaderFEncrypted_first_byte(bytes) == bytes[11] % 2 = 1

\* PackedWordHeader::unpack_from_slice(..).first_flags.f_encrypted: bit 0 (lsb0) of
\* the two-byte first_flags field at offset 10, that is the low bit of byte 11.
WordHeaderFEncrypted(bytes) == bytes[12] % 2 = 1

\* WordEncryptionHandler::is_encrypted
WordIsEncrypted(stream) ==
    IF stream.kind = "Err" THEN Panic("stream has to exist")
    ELSE IF stream.kind # "Ok" THEN stream
    ELSE LET bytes == SubSeq(stream.val, 1,
                             IF Len(stream.val) < 32 THEN Len(stream.val) ELSE 32)
         IN IF Len(bytes) # 32 THEN Panic("unable to unpack?")
            ELSE Ok(WordHeaderFEncrypted(bytes))

\* BIFFSTream::next at `position`: None, or the item and the next position
BiffNext(data, position) ==
    LET end_of_position_slice == position + 4 IN
    IF end_of_position_slice >= Len(data) THEN Ok(None)
    ELSE LET h == Slice(data, position, end_of_position_slice)
             num == u16_from_le_bytes(<<h[1], h[2]>>)
             size == u16_from_le_bytes(<<h[3], h[4]>>)
             end == end_of_position_slice + size
         IN IF end > Len(data)
            THEN Panic("data[end_of_position_slice..end]: range end out of bounds")
            ELSE Ok(Some([num |-> num, size |-> size,
                          data |-> Slice(data, end_of_position_slice, end),
                          next |-> end]))

\* a slip: the record number is not compared
BiffSkipTo_any(data, position, target) == BiffNext(data, position)

\* BIFFSTream::skip_to, from `position`
RECURSIVE BiffSkipTo(_, _, _)
BiffSkipTo(data, position, target) ==
    Try(BiffNext(data, position), LAMBDA item :
        IF item = None THEN Ok(None)
        ELSE IF Unwrap(item).num = target THEN Ok(item)
        ELSE BiffSkipTo(data, Unwrap(item).next, target))

\* ExcelEncryptionHandler::is_encrypted (BOF is record 2057, FilePass record 47)
ExcelIsEncrypted(stream) ==
    IF stream.kind = "Err" THEN Panic("unable to open workbook?")
    ELSE IF stream.kind # "Ok" THEN stream
    ELSE Try(BiffNext(stream.val, 0), LAMBDA first :
         IF first = None THEN Panic("must have first item")
         ELSE IF Unwrap(first).num # 2057 THEN Panic("assert_eq!(first.num, BOF)")
         ELSE Try(BiffSkipTo(stream.val, 0, 47), LAMBDA pass :
              IF pass = None THEN Ok(FALSE)
              ELSE IF Unwrap(pass).size < 2
              THEN Panic("item.data[0..2]: range end out of bounds")
              ELSE Ok(SubSeq(Unwrap(pass).data, 1, 2) = <<1, 0>>)))

\* encryption::is_encrypted: the first stream whose lower-cased name is one of the
\* four document names picks the handler.
RECURSIVE FirstDocument(_)
FirstDocument(streams) ==
    IF streams = <<>> THEN None
    ELSE IF to_lowercase(Head(streams)) \in
              {WORD_DOC_STR, POWER_POINT_STR, EXCEL_STR, OOXML_DOC_STR}
    THEN Some(Head(streams))
    ELSE FirstDocument(Tail(streams))

is_encrypted(ole_file) ==
    LET doc == FirstDocument(list_streams(ole_file)) IN
    IF doc = None THEN Ok(FALSE)
    ELSE LET stream == Unwrap(doc)
             kind == to_lowercase(stream)
         IN IF kind = WORD_DOC_STR
            THEN WordIsEncrypted(open_stream(ole_file, <<stream>>))
            ELSE IF kind = EXCEL_STR
            THEN ExcelIsEncrypted(open_stream(ole_file, <<stream>>))
            ELSE Ok(FALSE)

-----------------------------------------------------------------------------
(* lib.rs: OleFile::parse *)

Min(a, b) == IF a < b THEN a ELSE b

\* the part of parse after the header: the rest of a larger first sector, the
\* sector loop, and the initialize_* calls in order.
ParseBody(file_header, rest) ==
    LET sector_size == file_header.sector_size
        should_read_size == IF sector_size > HEADER_LENGTH
                            THEN sector_size - HEADER_LENGTH ELSE 0
        should_read == SubSeq(rest, 1, Min(should_read_size, Len(rest)))
    IN
    IF Len(should_read) # should_read_size
    THEN Err([type |-> "OleInvalidHeader", sub |-> "NotEnoughBytes",
              expected |-> should_read_size, found |-> Len(should_read)])
    ELSE IF should_read # Zeros(should_read_size)
    THEN HeaderParsing("all bytes must be zero for larger header sizes")
    ELSE
    Try(ReadSectors(SubSeq(rest, Len(should_read) + 1, Len(rest)), sector_size),
        LAMBDA sectors :
    Try(initialize_sector_allocation_table(
            [header |-> file_header,
             sectors |-> sectors,
             sector_allocation_table |-> <<>>,
             short_sector_allocation_table |-> <<>>,
             directory_stream_data |-> <<>>,
             directory_entries |-> <<>>,
             mini_stream |-> <<>>,
             file_type |-> "Generic",
             encrypted |-> FALSE]),
        LAMBDA s1 :
    Try(initialize_short_sector_allocation_table(s1), LAMBDA s2 :
    Try(initialize_directory_stream(s2), LAMBDA s3 :
    Try(initialize_mini_stream(s3), LAMBDA s4 :
    Try(root(s4), LAMBDA root_entry :
    Try(Ok([s4 EXCEPT !.file_type = file_type(root_entry)]), LAMBDA self_to_init :
    Try(is_encrypted(self_to_init), LAMBDA encrypted :
        Ok([self_to_init EXCEPT !.encrypted = encrypted])))))))))

\* OleFile::parse over the whole byte source
parse(bytes) ==
    Try(parse_raw_header(SubSeq(bytes, 1, Min(HEADER_LENGTH, Len(bytes)))),
        LAMBDA raw_file_header :
        ParseBody(OleHeader_from_raw(raw_file_header),
                  SubSeq(bytes, HEADER_LENGTH + 1, Len(bytes))))

-----------------------------------------------------------------------------
(* The byte sources of the model: compound files written out byte by byte   *)
(* from a description, and a few sources shorter than a header.             *)

LE16(n) == <<n % 256, n \div 256>>

LE32(n) == <<n % 256, n \div 256, 0, 0>>

LE64(n) == <<n % 256, n \div 256, 0, 0, 0, 0, 0, 0>>

END32 == <<254, 255, 255, 255>>

FREE32 == <<255, 255, 255, 255>>

FATSECT32 == <<253, 255, 255, 255>>

\* n four-byte entries: those of `entries`, then `filler`
Entries32(entries, n, filler) ==
    [i \in 1..(4 * n) |->
        LET k == (i - 1) \div 4 + 1 IN
        (IF k <= Len(entries) THEN entries[k] ELSE filler)[((i - 1) % 4) + 1]]

\* the 64-byte name field: UTF-16LE code units, zero padded
NameField(name) ==
    [i \in 1..64 |->
        LET k == (i - 1) \div 2 + 1 IN
        IF k > Len(name) THEN 0
        ELSE IF i % 2 = 1 THEN name[k] % 256 ELSE name[k] \div 256]

SlabBytes(s) ==
    NameField(s.name) \o LE16(s.name_len) \o <<s.type, s.color>>
    \o s.left \o s.right \o s.child \o s.clsid \o Zeros(20) \o s.start \o s.size

EmptySlab == Zeros(128)

RECURSIVE Flatten(_)
Flatten(seqs) == IF seqs = <<>> THEN <<>> ELSE Head(seqs) \o Flatten(Tail(seqs))

\* byte i (from 0) of data sector k: each 64-byte tile starts at its own value
DataByte(k, i, fill) == (((k * 8) + (i \div 64)) * 31 + (i % 64) + fill) % 256

HeaderBytes(f) ==
    <<f.magic0>> \o Tail(MAGIC_BYTES) \o f.clsid \o f.minor \o f.major \o f.bom
    \o f.shift \o f.minishift \o f.reserved \o f.dirsects \o LE32(1) \o f.dir_first
    \o Zeros(4) \o f.cutoff \o f.minifat_first \o f.minifat_len \o END32 \o f.difat_len
    \o Entries32(f.difat, 109, FREE32)

\* Sector 0 is the FAT, 1 the directory, 2 the mini-FAT, 3 the first sector of
\* the mini-stream container, and f.extra data sectors follow.  The bytes
\* f.content are laid over the start of sector 3.  The last f.cut bytes of the
\* file are cut off.
FileBytes(f) ==
    LET ss == IF f.major = MAJOR_VERSION_4 THEN 4096 ELSE 512
        slabs == [i \in 1..(ss \div 128) |->
                     IF i <= Len(f.dir) THEN SlabBytes(f.dir[i]) ELSE EmptySlab]
        data == [k \in 1..(1 + f.extra) |->
                     [i \in 1..ss |-> IF k = 1 /\ i <= Len(f.content) THEN f.content[i]
                                      ELSE DataByte(k - 1, i - 1, f.fill)]]
        all == HeaderBytes(f) \o Zeros(ss - 512)
               \o Entries32(f.fat, ss \div 4, FREE32)
               \o Flatten(slabs)
               \o Entries32(f.minifat, ss \div 4, FREE32)
               \o Flatten(data)
    IN SubSeq(all, 1, Len(all) - f.cut)

\* names: "R", "A", "B", "S", "WordDocument", "Workbook"
NameR == <<82>>

NameA == <<65>>

NameB == <<66>>

NameS == <<83>>

NameWord == <<87, 111, 114, 100, 68, 111, 99, 117, 109, 101, 110, 116>>

NameBook == <<87, 111, 114, 107, 98, 111, 111, 107>>

Slab(name, type, left, right, child, start, size) ==
    [name |-> name, name_len |-> 2 * (Len(name) + 1), type |-> type, color |-> 1,
     left |-> left, right |-> right, child |-> child, clsid |-> Zeros(16),
     start |-> start, size |-> size]

\* A well-formed version-3 file: root R { stream A (100 bytes, mini-sectors 0, 1),
\* storage S { stream B (70 bytes, mini-sectors 2, 3) } }, the mini-stream of 512
\* bytes in sector 3.
BaseFile ==
    [magic0 |-> 208, clsid |-> Zeros(16), minor |-> CORRECT_MINOR_VERSION,
     major |-> MAJOR_VERSION_3, bom |-> <<254, 255>>, shift |-> SECTOR_SIZE_VERSION_3,
     minishift |-> <<6, 0>>, reserved |-> Zeros(6), dirsects |-> Zeros(4),
     cutoff |-> CORRECT_STANDARD_STREAM_MIN_SIZE,
     dir_first |-> LE32(1), minifat_first |-> LE32(2), minifat_len |-> LE32(1),
     difat_len |-> LE32(0), difat |-> <<LE32(0)>>,
     fat |-> <<FATSECT32, END32, END32, END32>>,
     minifat |-> <<LE32(1), END32, LE32(3), END32>>,
     dir |-> <<Slab(NameR, 5, FREE32, FREE32, LE32(1), LE32(3), LE64(512)),
               Slab(NameA, 2, FREE32, LE32(2), FREE32, LE32(0), LE64(100)),
               Slab(NameS, 1, FREE32, FREE32, LE32(3), LE32(0), LE64(0)),
               Slab(NameB, 2, FREE32, FREE32, FREE32, LE32(2), LE64(70))>>,
     fill |-> 0, content |-> <<>>, extra |-> 0, cut |-> 0]

\* `patch` laid over `base`: a field of the patch replaces the field of the base
Over(base, patch) ==
    [k \in DOMAIN base |-> IF k \in DOMAIN patch THEN patch[k] ELSE base[k]]

\* two patches together; the fields of q win
Both(p, q) ==
    [k \in DOMAIN p \cup DOMAIN q |-> IF k \in DOMAIN q THEN q[k] ELSE p[k]]

\* a file description with the fields of `patch` replaced; the fields s1 .. s4
\* of a patch are laid over the directory slabs 1 .. 4
Patched(base, patch) ==
    LET top == Over(base, patch)
        slabkey == <<"s1", "s2", "s3", "s4">>
    IN [top EXCEPT !.dir = [i \in 1..Len(base.dir) |->
                               IF slabkey[i] \in DOMAIN patch
                               THEN Over(base.dir[i], patch[slabkey[i]])
                               ELSE base.dir[i]]]

\* a chain of data sectors a -> a+1 -> ... -> b -> END as FAT entries a .. b
RECURSIVE ChainEntries(_, _)
ChainEntries(a, b) ==
    IF a > b THEN <<>>
    ELSE IF a = b THEN <<END32>>
    ELSE <<LE32(a + 1)>> \o ChainEntries(a + 1, b)

BaseFat == <<FATSECT32, END32, END32, END32>>

\* stream A as a standard stream of `size` bytes in the data sectors 4 .. 3+n
BigA(n, size) ==
    [extra |-> n, fat |-> BaseFat \o ChainEntries(4, 3 + n),
     s2 |-> [start |-> LE32(4), size |-> size]]

Version4 == [major |-> MAJOR_VERSION_4, shift |-> SECTOR_SIZE_VERSION_4]

\* BIFF records: a BOF record, FilePass records with an RC4 and with an XOR
\* payload, a FilePass record of one payload byte, two other records
Biff ==
    [bof |-> <<9, 8, 4, 0, 0, 6, 5, 0>>,
     rc4 |-> <<47, 0, 4, 0, 1, 0, 1, 0>>,
     xor |-> <<47, 0, 4, 0, 0, 0, 1, 0>>,
     short |-> <<47, 0, 1, 0, 1>>,
     codepage |-> <<66, 0, 2, 0, 176, 4>>,
     eof |-> <<10, 0, 0, 0>>]

\* stream A as the stream "Workbook" holding `records` in mini-sector 0
Workbook(records) ==
    [content |-> records, minifat |-> <<END32, END32, LE32(3), END32>>,
     s2 |-> [name |-> NameBook, name_len |-> 18, size |-> LE64(Len(records))]]

\* The variations and defects, one file each.
Patches ==
    << \* well-formed files
       [fill |-> 0],
       [fill |-> 1],
       Version4,
       [s2 |-> [size |-> LE64(128)]],
       [s2 |-> [size |-> LE64(0), start |-> END32]],
       [s4 |-> [name |-> NameA]],
       BigA(8, LE64(4096)),
       Both(BigA(1, LE64(4096)), Version4),
       Both(BigA(2, LE64(4097)), Version4),
       [s2 |-> [name |-> NameWord, name_len |-> 26]],
       [s2 |-> [name |-> NameWord, name_len |-> 26], fill |-> 1],
       \* the source and the header
       [magic0 |-> 0],
       [magic0 |-> 0, minor |-> <<0, 0>>],
       [cut |-> 100],
       [cut |-> 512],
       [cut |-> 2048],
       [difat_len |-> LE32(1)],
       [difat |-> <<LE32(9)>>],
       [difat |-> <<FREE32>>],
       [difat |-> <<END32, LE32(0)>>],
       [difat |-> <<LE32(0), END32, LE32(0)>>],
       [difat |-> <<LE32(0), FREE32, LE32(2)>>],
       [difat |-> <<LE32(0), LE32(2)>>],
       [dir_first |-> LE32(9)],
       [dir_first |-> END32],
       [minifat_first |-> LE32(9)],
       [minifat_first |-> FREE32],
       [minifat_first |-> END32],
       [minifat_len |-> LE32(0)],
       \* the FAT
       [fat |-> <<FATSECT32, LE32(1), END32, END32>>],
       [fat |-> <<FATSECT32, LE32(9), END32, END32>>],
       [fat |-> <<FATSECT32, FREE32, END32, END32>>],
       [fat |-> <<FATSECT32, END32, LE32(2), END32>>],
       [fat |-> <<FATSECT32, END32, LE32(9), END32>>],
       [fat |-> <<FATSECT32, END32, END32, LE32(3)>>],
       [fat |-> <<FATSECT32, END32, END32, LE32(9)>>],
       [fat |-> <<FATSECT32, END32, END32, FREE32>>],
       [fat |-> <<FATSECT32, END32, LE32(3), LE32(2)>>],
       Both(BigA(2, LE64(4096)), [fat |-> BaseFat \o <<LE32(5), LE32(4)>>]),
       \* the mini-FAT and the mini-stream
       [minifat |-> <<LE32(1), LE32(2), LE32(3), END32>>],
       [minifat |-> <<END32, END32, LE32(3), END32>>],
       [minifat |-> <<LE32(0), END32, LE32(3), END32>>],
       [minifat |-> <<LE32(1), LE32(0), LE32(3), END32>>],
       [minifat |-> <<LE32(1), FREE32, LE32(3), END32>>],
       [minifat |-> <<LE32(1), LE32(99), LE32(3), END32>>],
       [s1 |-> [start |-> END32]],
       [s1 |-> [start |-> LE32(9)]],
       [s1 |-> [size |-> LE64(128)]],
       [s1 |-> [size |-> LE64(1024)]],
       [s1 |-> [size |-> LE64(100)]],
       \* stream sizes and starting sectors
       [s2 |-> [size |-> LE64(0)]],
       [s2 |-> [size |-> LE64(64)]],
       [s2 |-> [size |-> LE64(200)]],
       [s2 |-> [start |-> LE32(9)]],
       [s2 |-> [start |-> FREE32]],
       [s2 |-> [size |-> LE64(4096), start |-> LE32(3)]],
       [s2 |-> [size |-> LE64(4096), start |-> LE32(9)]],
       [s2 |-> [size |-> <<100, 0, 0, 0, 1, 0, 0, 0>>]],
       Both([s2 |-> [size |-> <<100, 0, 0, 0, 1, 0, 0, 0>>]], Version4),
       BigA(9, LE64(4096)),
       BigA(8, LE64(4100)),
       [s2 |-> [name |-> NameWord, name_len |-> 26, size |-> LE64(0), start |-> END32]],
       [s2 |-> [name |-> NameBook, name_len |-> 18]],
       \* directory entries
       [s1 |-> [type |-> 2]],
       [s1 |-> [type |-> 2, size |-> LE64(100)]],
       [s1 |-> [type |-> 1, size |-> LE64(0)]],
       [s1 |-> [type |-> 0]],
       [s1 |-> [type |-> 0], s2 |-> [type |-> 0], s3 |-> [type |-> 0],
        s4 |-> [type |-> 0]],
       [s2 |-> [type |-> 0]],
       [s2 |-> [type |-> 3]],
       [s2 |-> [color |-> 2]],
       [s2 |-> [name_len |-> 3]],
       [s2 |-> [name_len |-> 66]],
       [s2 |-> [name |-> <<55296>>]],
       [s2 |-> [left |-> <<251, 255, 255, 255>>]],
       [s2 |-> [right |-> END32]],
       [s1 |-> [child |-> LE32(7)]],
       [s2 |-> [right |-> LE32(1)]],
       [s2 |-> [left |-> LE32(0)]],
       [s3 |-> [start |-> LE32(5)]],
       [s3 |-> [size |-> LE64(64)]],
       [s3 |-> [size |-> <<0, 0, 0, 0, 1, 0, 0, 0>>]],
       Both([s3 |-> [size |-> <<0, 0, 0, 0, 1, 0, 0, 0>>]], Version4),
       \* unallocated slabs with other fields that would not decode, and object
       \* types that are none of 0, 1, 2, 5
       [s4 |-> [type |-> 0, name_len |-> 66, color |-> 7,
                left |-> <<251, 255, 255, 255>>, size |-> LE64(1)]],
       [s3 |-> [type |-> 0, name_len |-> 3]],
       [s2 |-> [type |-> 3, name_len |-> 66]],
       [s3 |-> [type |-> 255]],
       [s4 |-> [type |-> 4, color |-> 2]],
       \* root sizes that are no multiple of 64
       Both([s1 |-> [size |-> LE64(100)]], Version4),
       [s1 |-> [size |-> <<4, 2, 0, 0, 0, 0, 0, 0>>]],
       \* a Word document whose stream name is in upper case
       [s2 |-> [name |-> <<87, 79, 82, 68, 68, 79, 67, 85, 77, 69, 78, 84>>,
                name_len |-> 26]],
       \* workbooks
       Workbook(Biff.bof \o Biff.rc4 \o Biff.eof),
       Workbook(Biff.bof \o Biff.codepage \o Biff.rc4),
       Workbook(Biff.bof \o Biff.xor \o Biff.eof),
       Workbook(Biff.bof \o Biff.codepage \o Biff.eof),
       Workbook(Biff.bof \o Biff.xor \o Biff.rc4 \o Biff.eof),
       Workbook(Biff.bof \o Biff.short \o Biff.eof),
       Workbook(Biff.codepage \o Biff.rc4 \o Biff.eof),
       Workbook(Biff.bof \o Biff.rc4 \o <<10, 0, 9, 0>>),
       Workbook(Biff.bof),
       \* defects in several stages of the constructor
       [magic0 |-> 0, cut |-> 100],
       [cut |-> 100, difat_len |-> LE32(1)],
       [cut |-> 100, s2 |-> [type |-> 3]],
       [difat_len |-> LE32(1), s2 |-> [type |-> 3]],
       [difat |-> <<LE32(9)>>, s2 |-> [type |-> 3]],
       [minifat_first |-> LE32(9), s2 |-> [type |-> 3]],
       [s1 |-> [start |-> LE32(9)], s2 |-> [type |-> 3]],
       \* a DIFAT length of one with an inline DIFAT entry that names no sector
       [difat_len |-> LE32(1), difat |-> <<LE32(9)>>],
       \* truncated version-4 sources
       Both([cut |-> 100], Version4),
       Both([cut |-> 4096], Version4) >>

\* sources shorter than a header
ShortInputs ==
    {<<>>, <<0>>, SubSeq(FileBytes(BaseFile), 1, 511),
     <<0>> \o SubSeq(FileBytes(BaseFile), 2, 511)}

Inputs ==
    {FileBytes(Patched(BaseFile, Patches[i])) : i \in 1..Len(Patches)} \cup ShortInputs

NameZ == <<90>>

PathNames == {NameR, NameA, NameB, NameS, NameZ}

MaxPathLen == 2

Paths == UNION {[1..n -> PathNames] : n \in 0..MaxPathLen}

-----------------------------------------------------------------------------
(* The state machine: one source is parsed once, then the file object is read *)

NoFile == [header |-> "none"]

NoCall == [op |-> "none"]

Init ==
    /\ read \in Inputs
    /\ pc = "start"
    /\ file = NoFile
    /\ error = [kind |-> "none"]
    /\ ret = NoCall

\* OleFile::parse(read): the source is consumed; the file object exists only
\* when parse returns Ok.
Parse ==
    /\ pc = "start"
    /\ \E r \in {parse(read)} :
         /\ pc' = CASE r.kind = "Ok" -> "open"
                    [] r.kind = "Err" -> "failed"
                    [] r.kind = "Panic" -> "panicked"
                    [] r.kind = "Hang" -> "hung"
         /\ file' = IF r.kind = "Ok" THEN r.val ELSE NoFile
         /\ error' = IF r.kind = "Ok" THEN [kind |-> "Ok"] ELSE r
    /\ read' = <<>>
    /\ UNCHANGED ret

OpenStream(stream_path) ==
    /\ pc = "open"
    /\ ret = NoCall
    /\ ret' = [op |-> "open_stream", path |-> stream_path,
               out |-> open_stream(file, stream_path)]
    /\ UNCHANGED <<read, pc, file, error>>

ListStreams ==
    /\ pc = "open"
    /\ ret = NoCall
    /\ ret' = [op |-> "list_streams", out |-> Ok(list_streams(file))]
    /\ UNCHANGED <<read, pc, file, error>>

ListStorage ==
    /\ pc = "open"
    /\ ret = NoCall
    /\ ret' = [op |-> "list_storage", out |-> Ok(list_storage(file))]
    /\ UNCHANGED <<read, pc, file, error>>

Root ==
    /\ pc = "open"
    /\ ret = NoCall
    /\ ret' = [op |-> "root", out |-> root(file)]
    /\ UNCHANGED <<read, pc, file, error>>

IsEncrypted ==
    /\ pc = "open"
    /\ ret = NoCall
    /\ ret' = [op |-> "is_encrypted", out |-> Ok(file.encrypted)]
    /\ UNCHANGED <<read, pc, file, error>>

\* the caller takes the value a call returned; a call that panicked or hangs
\* returned nothing
DropResult ==
    /\ ret # NoCall
    /\ ret.out.kind \in {"Ok", "Err"}
    /\ ret' = NoCall
    /\ UNCHANGED <<read, pc, file, error>>

Next ==
    \/ Parse
    \/ \E stream_path \in Paths : OpenStream(stream_path)
    \/ ListStreams
    \/ ListStorage
    \/ Root
    \/ IsEncrypted
    \/ DropResult

Spec == Init /\ [][Next]_vars

-----------------------------------------------------------------------------
(* parse_raw_header on its own: 512-byte headers, one call each *)

\* the header sectors of a well-formed version-3 and version-4 file
Header3 == HeaderBytes(BaseFile)

Header4 == HeaderBytes(Over(BaseFile, Version4))

\* `header` with the bytes w[2] written at offset w[1]
WriteBytes(header, w) ==
    SubSeq(header, 1, w[1]) \o w[2] \o SubSeq(header, w[1] + Len(w[2]) + 1, Len(header))

\* the fields parse_raw_header only copies (the FAT length, the directory start,
\* the transaction signature, the mini-FAT and DIFAT fields, the 109 DIFAT
\* entries) filled with one byte
OtherFieldsFilled(header, byte) ==
    WriteBytes(WriteBytes(header, <<44, [i \in 1..12 |-> byte]>>),
               <<60, [i \in 1..452 |-> byte]>>)

\* writes into the fields parse_raw_header looks at: the magic, the class id,
\* the minor and major version, the byte-order mark, the sector shift, the
\* mini-sector shift, the reserved bytes, the directory-sector count, the cutoff
HeaderWrites ==
    << <<0, <<0>>>>,
       <<23, <<1>>>>,
       <<24, <<62, 1>>>>,
       <<26, <<5, 0>>>>,
       <<28, <<255, 254>>>>,
       <<30, <<10, 0>>>>,
       <<32, <<7, 0>>>>,
       <<39, <<1>>>>,
       <<40, <<1>>>>,
       <<56, <<0, 32, 0, 0>>>>,
       <<30, <<12, 0>>>> >>

\* `header` after the writes chosen in S, in the order of HeaderWrites from i on
RECURSIVE WriteFrom(_, _, _)
WriteFrom(header, S, i) ==
    IF i > Len(HeaderWrites) THEN header
    ELSE WriteFrom(IF i \in S THEN WriteBytes(header, HeaderWrites[i]) ELSE header, S, i + 1)

HeaderBases ==
    {Header3, Header4, OtherFieldsFilled(Header3, 171), OtherFieldsFilled(Header4, 171)}

HeaderInputs ==
    {WriteFrom(base, S, 1) : base \in HeaderBases, S \in SUBSET DOMAIN HeaderWrites}

InitHeader ==
    /\ read \in HeaderInputs
    /\ pc = "header"
    /\ file = NoFile
    /\ error = [kind |-> "none"]
    /\ ret = NoCall

\* parse_raw_header(read): the 512 bytes are consumed
ParseRawHeader ==
    /\ pc = "header"
    /\ pc' = "parsed"
    /\ ret' = [op |-> "parse_raw_header",
               header |-> SubSeq(read, 1, Min(HEADER_LENGTH, Len(read))),
               out |-> parse_raw_header(SubSeq(read, 1, Min(HEADER_LENGTH, Len(read))))]
    /\ read' = SubSeq(read, Min(HEADER_LENGTH, Len(read)) + 1, Len(read))
    /\ UNCHANGED <<file, error>>

NextHeader == ParseRawHeader

SpecHeader == InitHeader /\ [][NextHeader]_vars

-----------------------------------------------------------------------------
(* Concurrent readers: one file object behind a shared reference, read by    *)
(* several threads.  Every read operation takes &self; a call begins, other  *)
(* readers run, and the call returns what it computes from the file object.  *)

MaxReaders == 2

Readers == 1..MaxReaders

\* a well-formed file, a Word document, and a file with a cyclic sibling link
ReaderInputs ==
    {FileBytes(BaseFile),
     FileBytes(Patched(BaseFile, [s2 |-> [name |-> NameWord, name_len |-> 26], fill |-> 1])),
     FileBytes(Patched(BaseFile, [s2 |-> [right |-> LE32(1)]]))}

ReaderPaths == {<<NameA>>, <<NameS, NameB>>, <<NameZ>>}

ReaderCalls ==
    {[op |-> "root"], [op |-> "list_streams"], [op |-> "list_storage"],
     [op |-> "is_encrypted"]}
    \cup {[op |-> "open_stream", path |-> p] : p \in ReaderPaths}

Running == [kind |-> "Running"]

\* what a call returns on the file object `self`
ResultOf(self, call) ==
    CASE call.op = "root" -> root(self)
      [] call.op = "list_streams" -> Ok(list_streams(self))
      [] call.op = "list_storage" -> Ok(list_storage(self))
      [] call.op = "is_encrypted" -> Ok(self.encrypted)
      [] call.op = "open_stream" -> open_stream(self, call.path)

InitReaders ==
    /\ read \in ReaderInputs
    /\ pc = "start"
    /\ file = NoFile
    /\ error = [kind |-> "none"]
    /\ ret = [r \in Readers |-> NoCall]

\* reader r calls a read operation on the shared file object
BeginRead(r, call) ==
    /\ pc = "open"
    /\ ret[r] = NoCall
    /\ ret' = [ret EXCEPT ![r] = [call |-> call, out |-> Running]]
    /\ UNCHANGED <<read, pc, file, error>>

\* a slip: a call takes the mini-stream out of the file object
FinishRead_consuming(r) ==
    /\ pc = "open"
    /\ ret[r] # NoCall
    /\ ret[r].out = Running
    /\ ret' = [ret EXCEPT ![r].out = ResultOf(file, ret[r].call)]
    /\ file' = [file EXCEPT !.mini_stream = <<>>]
    /\ UNCHANGED <<read, pc, error>>

\* the call of reader r runs to its end on the file object as it is
FinishRead(r) ==
    /\ pc = "open"
    /\ ret[r] # NoCall
    /\ ret[r].out = Running
    /\ ret' = [ret EXCEPT ![r].out = ResultOf(file, ret[r].call)]
    /\ UNCHANGED <<read, pc, file, error>>

\* reader r takes the value its call returned; a call that panicked or hangs
\* returned nothing
TakeResult(r) ==
    /\ ret[r] # NoCall
    /\ ret[r].out.kind \in {"Ok", "Err"}
    /\ ret' = [ret EXCEPT ![r] = NoCall]
    /\ UNCHANGED <<read, pc, file, error>>

NextReaders ==
    \/ Parse
    \/ \E r \in Readers, call \in ReaderCalls : BeginRead(r, call)
    \/ \E r \in Readers : FinishRead(r)
    \/ \E r \in Readers : TakeResult(r)

SpecReaders == InitReaders /\ [][NextReaders]_vars

-----------------------------------------------------------------------------
(* word.rs: the packed 32-byte Word header, unpacked and packed again.  With *)
(* bit_numbering = "lsb0" bit 0 of a packed struct is the lowest bit of its  *)
(* last byte; integer fields are little-endian.                              *)

\* bit k of a byte
Bit(byte, k) == (byte \div Pow2(k)) % 2 = 1

\* FirstFlags::unpack of the two bytes <<b[1], b[2]>>
FirstFlags_unpack(b) ==
    [f_dot |-> Bit(b[1], 0),
     f_glsy |-> Bit(b[1], 1),
     f_complex |-> Bit(b[1], 2),
     f_has_pic |-> Bit(b[1], 3),
     c_quick_saves |-> b[1] \div 16,
     f_encrypted |-> Bit(b[2], 0),
     f_which_table_stream |-> Bit(b[2], 1),
     f_read_only_recommended |-> Bit(b[2], 2),
     f_write_reservation |-> Bit(b[2], 3),
     f_ext_char |-> Bit(b[2], 4),
     f_load_override |-> Bit(b[2], 5),
     f_far_east |-> Bit(b[2], 6),
     f_obfuscation |-> Bit(b[2], 7)]

\* a slip: the two bytes are written in the other order
FirstFlags_pack_swapped(f) ==
    LET B(x) == IF x THEN 1 ELSE 0 IN
    <<B(f.f_encrypted) + 2 * B(f.f_which_table_stream)
          + 4 * B(f.f_read_only_recommended) + 8 * B(f.f_write_reservation)
          + 16 * B(f.f_ext_char) + 32 * B(f.f_load_override)
          + 64 * B(f.f_far_east) + 128 * B(f.f_obfuscation),
      B(f.f_dot) + 2 * B(f.f_glsy) + 4 * B(f.f_complex) + 8 * B(f.f_has_pic)
          + 16 * (f.c_quick_saves % 16)>>

\* FirstFlags::pack
FirstFlags_pack(f) ==
    LET B(x) == IF x THEN 1 ELSE 0 IN
    <<B(f.f_dot) + 2 * B(f.f_glsy) + 4 * B(f.f_complex) + 8 * B(f.f_has_pic)
          + 16 * (f.c_quick_saves % 16),
      B(f.f_encrypted) + 2 * B(f.f_which_table_stream)
          + 4 * B(f.f_read_only_recommended) + 8 * B(f.f_write_reservation)
          + 16 * B(f.f_ext_char) + 32 * B(f.f_load_override)
          + 64 * B(f.f_far_east) + 128 * B(f.f_obfuscation)>>

\* SecondFlags::unpack of one byte
SecondFlags_unpack(byte) ==
    [f_mac |-> Bit(byte, 0),
     f_empty_special |-> Bit(byte, 1),
     f_load_override_page |-> Bit(byte, 2),
     reserved_1 |-> Bit(byte, 3),
     reserved_2 |-> Bit(byte, 4),
     f_spare_0 |-> byte \div 32]

\* SecondFlags::pack
SecondFlags_pack(f) ==
    LET B(x) == IF x THEN 1 ELSE 0 IN
    B(f.f_mac) + 2 * B(f.f_empty_special) + 4 * B(f.f_load_override_page)
        + 8 * B(f.reserved_1) + 16 * B(f.reserved_2) + 32 * (f.f_spare_0 % 8)

\* PackedWordHeader::unpack of a [u8; 32]
PackedWordHeader_unpack(bytes) ==
    Ok([w_ident |-> u16_from_le_bytes(Slice(bytes, 0, 2)),
        n_fib |-> u16_from_le_bytes(Slice(bytes, 2, 4)),
        unused |-> u16_from_le_bytes(Slice(bytes, 4, 6)),
        lid |-> u16_from_le_bytes(Slice(bytes, 6, 8)),
        pn_next |-> u16_from_le_bytes(Slice(bytes, 8, 10)),
        first_flags |-> FirstFlags_unpack(Slice(bytes, 10, 12)),
        n_fib_back |-> u16_from_le_bytes(Slice(bytes, 12, 14)),
        i_key |-> u32_from_le_bytes(Slice(bytes, 14, 18)),
        environment |-> bytes[19],
        second_flags |-> SecondFlags_unpack(bytes[20]),
        reserved_3 |-> u16_from_le_bytes(Slice(bytes, 20, 22)),
        reserved_4 |-> u16_from_le_bytes(Slice(bytes, 22, 24)),
        reserved_5 |-> u32_from_le_bytes(Slice(bytes, 24, 28)),
        reserved_6 |-> u32_from_le_bytes(Slice(bytes, 28, 32))])

\* PackedWordHeader::pack; a u16 n is written as n % 256, n / 256 and a u32 as
\* its low half followed by its high half
PackedWordHeader_pack(h) ==
    LET Le16(n) == <<n % 256, n \div 256>>
        Le32(v) == Le16(v[2]) \o Le16(v[1])
    IN Ok(Le16(h.w_ident) \o Le16(h.n_fib) \o Le16(h.unused) \o Le16(h.lid)
          \o Le16(h.pn_next) \o FirstFlags_pack(h.first_flags) \o Le16(h.n_fib_back)
          \o Le32(h.i_key) \o <<h.environment, SecondFlags_pack(h.second_flags)>>
          \o Le16(h.reserved_3) \o Le16(h.reserved_4) \o Le32(h.reserved_5)
          \o Le32(h.reserved_6))

\* 32-byte arrays: the array of the test there_and_back_again, the zero array
\* and the array of 32 bytes FF, each with the three flag bytes (offsets 10,
\* 11 and 19) replaced: one of them by every byte value, the other two by 00,
\* 13 or FF
WordHeaderInputs ==
    LET bases == {<<236, 165, 193, 0, 71, 0, 9, 4, 0, 0, 0, 19, 191, 0, 52, 0,
                    0, 0, 0, 16, 0, 0, 0, 0, 0, 4, 0, 0, 22, 4, 0, 0>>,
                  Zeros(32), [i \in 1..32 |-> 255]}
        all == 0..255
        few == {0, 19, 255}
        flags == (all \X few \X few) \cup (few \X all \X few) \cup (few \X few \X all)
    IN {[base EXCEPT ![11] = t[1], ![12] = t[2], ![20] = t[3]] :
            base \in bases, t \in flags}

InitWord ==
    /\ read \in WordHeaderInputs
    /\ pc = "fib"
    /\ file = NoFile
    /\ error = [kind |-> "none"]
    /\ ret = NoCall

\* unpack the array, pack the struct
ThereAndBackAgain ==
    /\ pc = "fib"
    /\ pc' = "packed"
    /\ \E unpacked \in {PackedWordHeader_unpack(read)} :
           ret' = [op |-> "there_and_back_again", bytes |-> read,
                   unpacked |-> unpacked,
                   packed |-> Try(unpacked, LAMBDA h : PackedWordHeader_pack(h))]
    /\ UNCHANGED <<read, file, error>>

SpecWord == InitWord /\ [][ThereAndBackAgain]_vars

-----------------------------------------------------------------------------
(* Properties *)

Entries == file.directory_entries

\* the entry an open_stream call on `stream_path` resolves to, if it does
Resolved(stream_path) ==
    LET found == find_stream(file, stream_path) IN
    IF found.kind # "Ok" THEN None
    ELSE IF found.val = None THEN None
    ELSE Some(Entries[Unwrap(found.val)])

CalledOpenStream == ret.op = "open_stream"

ResolvedStream ==
    /\ CalledOpenStream
    /\ IsSome(Resolved(ret.path))
    /\ Unwrap(Resolved(ret.path)).object_type = "Stream"

\* C1: in a file whose entry 0 is the RootStorage, the byte sequence that
\* open_stream returns on the path of a Stream entry S has length exactly
\* S.stream_size.
C1_LengthIsStreamSize ==
    /\ ResolvedStream
    /\ Entries[1].object_type = "RootStorage"
    /\ ret.out.kind = "Ok"
    => NatEqU64(Len(ret.out.val), Unwrap(Resolved(ret.path)).stream_size)

\* the chain s, table[s], table[table[s]], ... reaches CHAIN_END within n steps
\* through indices of `blocks` and `table`
RECURSIVE ChainEnds(_, _, _, _)
ChainEnds(blocks, table, s, n) ==
    IF s = CHAIN_END THEN TRUE
    ELSE IF n = 0 THEN FALSE
    ELSE /\ U32Below(s, Len(blocks))
         /\ U32Below(s, Len(table))
         /\ ChainEnds(blocks, table, table[AsIndex(s) + 1], n - 1)

\* the concatenation of the blocks visited by such a chain
RECURSIVE ChainConcat(_, _, _)
ChainConcat(blocks, table, s) ==
    IF s = CHAIN_END THEN <<>>
    ELSE blocks[AsIndex(s) + 1] \o ChainConcat(blocks, table, table[AsIndex(s) + 1])

\* C2: for a Stream entry of size N starting at s whose chain holds at least N
\* bytes, open_stream returns the first N bytes of the concatenation of the
\* blocks of the chain from s: mini-stream tiles along the mini-FAT if N < 4096,
\* whole sectors along the FAT if N >= 4096.
C2_FirstNBytesOfChain ==
    ResolvedStream =>
        LET e == Unwrap(Resolved(ret.path))
            N == e.stream_size
            mini == U64Less(N, <<0, 0, 0, 4096>>)
            blocks == IF mini THEN file.mini_stream ELSE file.sectors
            table == IF mini THEN file.short_sector_allocation_table
                     ELSE file.sector_allocation_table
            s == Unwrap(e.starting_sector_location)
        IN ChainEnds(blocks, table, s, Len(table)) =>
              LET all == ChainConcat(blocks, table, s) IN
              MinLenU64(Len(all), N) = N[4] /\ N[1] = 0 /\ N[2] = 0 /\ N[3] = 0 =>
                  ret.out = Ok(SubSeq(all, 1, N[4]))

\* C3: parse ends by returning a file object or an Error value; it never aborts
\* and never fails to return.
C3_ParseReturns == pc \notin {"panicked", "hung"}

\* C4: open_stream returns the stream's bytes or an error value for every path;
\* a path that does not resolve fails with DirectoryEntryNotFound and a path
\* that resolves to an entry that is not a Stream fails.
C4_OpenStreamReturns ==
    CalledOpenStream =>
        /\ ret.out.kind \in {"Ok", "Err"}
        /\ ~IsSome(Resolved(ret.path)) =>
               ret.out = Err([type |-> "OleDirectoryEntryNotFound"])
        /\ ~ResolvedStream => ret.out.kind = "Err"

\* the positions of the entries of type t
PositionsOf(t) == {i \in 1..Len(Entries) : Entries[i].object_type = t}

\* `names` holds one name per entry of type t, in array order
IsListingOf(names, t) ==
    /\ Len(names) = Cardinality(PositionsOf(t))
    /\ \A i \in PositionsOf(t) :
           names[Cardinality({j \in PositionsOf(t) : j <= i})] = Entries[i].name

\* C5: list_streams returns exactly the names of the Stream entries and
\* list_storage those of the Storage entries (the RootStorage entry is in
\* neither), one name per entry in array order, duplicates kept.
C5_ListsByType ==
    /\ ret.op = "list_streams" => IsListingOf(ret.out.val, "Stream")
    /\ ret.op = "list_storage" => IsListingOf(ret.out.val, "Storage")

\* list_streams has returned the same name twice, from a directory that also
\* holds a RootStorage and a Storage entry
C5_Witness ==
    /\ ret.op = "list_streams"
    /\ Len(ret.out.val) = 2
    /\ ret.out.val[1] = ret.out.val[2]
    /\ PositionsOf("RootStorage") # {}
    /\ PositionsOf("Storage") # {}

\* C6: in a file object that open returned, entry 0 exists, is the RootStorage,
\* has stream_size divisible by 64, and len(mini_stream) * 64 >= its stream_size.
C6_RootEntry ==
    pc = "open" =>
        /\ Entries # <<>>
        /\ Entries[1].object_type = "RootStorage"
        /\ U64Mod64(Entries[1].stream_size) = 0
        /\ ~U64Less(<<0, 0, 0, Len(file.mini_stream) * 64>>, Entries[1].stream_size)

\* the number of 128-byte slabs of the directory stream
Slabs == Len(file.directory_stream_data) \div SIZE_OF_DIRECTORY_ENTRY

IdInRange(id) ==
    IsSome(id) => /\ ~U32Gt(Unwrap(id), MAX_REG_STREAM_ID_VALUE)
                  /\ U32Below(Unwrap(id), Slabs)

\* C7: in a file object that open returned, every non-absent left_sibling_id,
\* right_sibling_id and child_id is <= MAXREGSID and smaller than the number of
\* directory slabs.
C7_IdsInRange ==
    pc = "open" =>
        \A i \in 1..Len(Entries) :
            /\ IdInRange(Entries[i].left_sibling_id)
            /\ IdInRange(Entries[i].right_sibling_id)
            /\ IdInRange(Entries[i].child_id)

\* C8: in a file object that open returned, every Storage entry has no starting
\* sector and a stream_size of zero.
C8_StorageEntries ==
    pc = "open" =>
        \A i \in 1..Len(Entries) :
            Entries[i].object_type = "Storage" =>
                /\ Entries[i].starting_sector_location = None
                /\ U64IsZero(Entries[i].stream_size)

\* the slab that entry e was decoded from
SlabOf(e) ==
    SubSeq(file.directory_stream_data, e.index * SIZE_OF_DIRECTORY_ENTRY + 1,
           (e.index + 1) * SIZE_OF_DIRECTORY_ENTRY)

\* open returned a file with a Storage entry whose slab holds a non-zero
\* starting sector field
C8_Witness ==
    /\ pc = "open"
    /\ \E i \in 1..Len(Entries) :
           /\ Entries[i].object_type = "Storage"
           /\ Slice(SlabOf(Entries[i]), 116, 120) # Zeros(4)

ParseStep == pc = "start" /\ pc' # "start"

WrongMagicOf(bytes) ==
    Err([type |-> "OleInvalidHeader", sub |-> "WrongMagicBytes",
         found |-> SubSeq(bytes, 1, Min(8, Len(bytes)))])

\* C10 as stated: a source whose first byte differs from the first magic byte
\* fails with WrongMagicBytes carrying its first 8 bytes.
C10_WrongMagic ==
    [][ParseStep /\ read # <<>> /\ read[1] # MAGIC_BYTES[1]
           => error' = WrongMagicOf(read)]_vars

\* C10, amended: a source of at least 512 bytes whose first byte differs from the
\* first magic byte fails with WrongMagicBytes carrying its first 8 bytes.
C10_WrongMagicFullHeader ==
    [][ParseStep /\ Len(read) >= HEADER_LENGTH /\ read[1] # MAGIC_BYTES[1]
           => error' = WrongMagicOf(read)]_vars

\* parse has failed with WrongMagicBytes on a source whose first byte is not D0
C10_Witness ==
    /\ pc = "failed"
    /\ error.err.type = "OleInvalidHeader"
    /\ error.err.sub = "WrongMagicBytes"
    /\ error.err.found[1] # MAGIC_BYTES[1]

\* the sector size that the header of `bytes` announces
SectorSizeOf(bytes) ==
    OleHeader_from_raw(parse_raw_header(SubSeq(bytes, 1, HEADER_LENGTH)).val).sector_size

\* the header sector of `bytes` is complete and accepted: a valid header, then
\* zeros up to the sector size
HeaderSectorAccepted(bytes) ==
    /\ Len(bytes) >= HEADER_LENGTH
    /\ parse_raw_header(SubSeq(bytes, 1, HEADER_LENGTH)).kind = "Ok"
    /\ Len(bytes) >= SectorSizeOf(bytes)
    /\ SubSeq(bytes, HEADER_LENGTH + 1, SectorSizeOf(bytes))
           = Zeros(SectorSizeOf(bytes) - HEADER_LENGTH)

UnexpectedEof(n) == Err([type |-> "OleUnexpectedEof", sector |-> n])

\* C11: for a source whose header sector is accepted, with ss the sector size:
\* if the source ends on a sector boundary, parse does not fail with
\* UnexpectedEof and a file object it returns holds (length - ss) / ss sectors,
\* sector k being the k-th ss-byte chunk after the header sector; if the source
\* ends in the middle of a sector, parse fails with UnexpectedEof at the number
\* of the incomplete sector.
C11_SectorSplit ==
    [][ParseStep /\ HeaderSectorAccepted(read) =>
          LET ss == SectorSizeOf(read)
              n == (Len(read) - ss) \div ss
          IN IF (Len(read) - ss) % ss = 0
             THEN /\ ~(error'.kind = "Err" /\ error'.err.type = "OleUnexpectedEof")
                  /\ pc' = "open" =>
                        file'.sectors =
                            [k \in 1..n |-> SubSeq(read, k * ss + 1, (k + 1) * ss)]
             ELSE error' = UnexpectedEof(n)]_vars

\* parse has failed with UnexpectedEof at sector 3: the source ended inside the
\* fourth sector after the header
C11_Witness ==
    /\ pc = "failed"
    /\ error = UnexpectedEof(3)

\* the source ends on a sector boundary
WholeSectors(bytes) == (Len(bytes) - SectorSizeOf(bytes)) % SectorSizeOf(bytes) = 0

\* the header field master_sector_allocation_table_len of the source
DifatLenOf(bytes) ==
    OleHeader_from_raw(parse_raw_header(SubSeq(bytes, 1, HEADER_LENGTH)).val)
        .master_sector_allocation_table_len

\* C12: a source of whole sectors with an accepted header sector whose DIFAT
\* length is not zero fails with CurrentlyUnimplemented, whatever its inline
\* DIFAT entries hold.
C12_DifatUnimplemented ==
    [][ParseStep /\ HeaderSectorAccepted(read) /\ WholeSectors(read)
          /\ DifatLenOf(read) # <<0, 0>>
          => error' = Err([type |-> "CurrentlyUnimplemented"])]_vars

\* the header of a source whose header sector is accepted
HeaderOf(bytes) == OleHeader_from_raw(parse_raw_header(SubSeq(bytes, 1, HEADER_LENGTH)).val)

\* the directory stream of a source, as the stages before the directory
\* entries deliver it (or the outcome of the stage that stops before)
DirectoryDataOf(bytes) ==
    Try(ReadSectors(SubSeq(bytes, SectorSizeOf(bytes) + 1, Len(bytes)), SectorSizeOf(bytes)),
        LAMBDA sectors :
    Try(initialize_sector_allocation_table(
            [header |-> HeaderOf(bytes),
             sectors |-> sectors,
             sector_allocation_table |-> <<>>,
             short_sector_allocation_table |-> <<>>,
             directory_stream_data |-> <<>>,
             directory_entries |-> <<>>,
             mini_stream |-> <<>>,
             file_type |-> "Generic",
             encrypted |-> FALSE]),
        LAMBDA s1 :
    Try(initialize_short_sector_allocation_table(s1), LAMBDA s2 :
        IF ~U32Below(s2.header.sector_allocation_table_first_sector, Len(s2.sectors))
        THEN Panic("sectors[next_directory_index]: index out of bounds")
        ELSE DirectoryWalk(s2.sectors, s2.sector_allocation_table,
                           s2.header.sector_allocation_table_first_sector,
                           {s2.header.sector_allocation_table_first_sector},
                           s2.sectors[AsIndex(s2.header.sector_allocation_table_first_sector) + 1]))))

\* slab k (from 0) of a directory stream, and its object_type byte
SlabAt(data, k) ==
    SubSeq(data, k * SIZE_OF_DIRECTORY_ENTRY + 1, (k + 1) * SIZE_OF_DIRECTORY_ENTRY)

TypeAt(data, k) == data[k * SIZE_OF_DIRECTORY_ENTRY + 67]

\* slab k is unallocated or decodes to an entry
SlabDecodes(header, data, k) ==
    \/ TypeAt(data, k) = 0
    \/ DirectoryEntry_from_raw(header, DirectoryEntryRaw_parse(SlabAt(data, k)), k).kind = "Ok"

ObjectTypeNamed(byte) ==
    CASE byte = 1 -> "Storage" [] byte = 2 -> "Stream" [] byte = 5 -> "RootStorage"
      [] OTHER -> "none"

DirectoryError(e) ==
    /\ e.kind = "Err"
    /\ e.err.type \in {"OleInvalidDirectoryEntry", "OleUnknownOrUnallocatedDirectoryEntry",
                       "FromUtf16"}

\* C13: when the constructor comes to the directory slabs, a slab of
\* object_type 0x00 is dropped without error whatever its other fields hold (a
\* directory whose other slabs decode gives no directory error, and the file
\* has no entry for the slab); a slab of type 0x01, 0x02, 0x05 becomes a
\* Storage, Stream, RootStorage entry; the first slab that fails to decode, if
\* its type is any other value, fails the open with the directory error for
\* object_type.
C13_ObjectType ==
    [][ParseStep /\ HeaderSectorAccepted(read) /\ DirectoryDataOf(read).kind = "Ok" =>
          LET header == HeaderOf(read)
              data == DirectoryDataOf(read).val
              slabs == 0..((Len(data) \div SIZE_OF_DIRECTORY_ENTRY) - 1)
          IN /\ \A k \in slabs :
                    /\ TypeAt(data, k) \notin {0, 1, 2, 5}
                    /\ \A j \in 0..(k - 1) : SlabDecodes(header, data, j)
                    => error' = DirectoryEntryInvalid("object_type")
             /\ (\A k \in slabs : SlabDecodes(header, data, k)) => ~DirectoryError(error')
             /\ pc' = "open" =>
                    /\ file'.directory_stream_data = data
                    /\ {file'.directory_entries[i].index :
                            i \in 1..Len(file'.directory_entries)}
                           = {k \in slabs : TypeAt(data, k) # 0}
                    /\ \A i \in 1..Len(file'.directory_entries) :
                           file'.directory_entries[i].object_type
                               = ObjectTypeNamed(
                                     TypeAt(data, file'.directory_entries[i].index))]_vars

\* open returned a file whose directory holds a slab of object_type 0x00 with a
\* name length of 66, and no entry for it
C13_Witness ==
    /\ pc = "open"
    /\ \E k \in 0..(Slabs - 1) :
           /\ TypeAt(file.directory_stream_data, k) = 0
           /\ Slice(SlabAt(file.directory_stream_data, k), 64, 66) = <<66, 0>>
           /\ \A i \in 1..Len(Entries) : Entries[i].index # k

\* slab k with its stream_size field replaced
WithSizeField(slab, size) == SubSeq(slab, 1, 120) \o size

\* slab k is the first that may fail, and only for its stream_size field: the
\* slabs before it decode, and so does slab k once its size field is zeroed
FailsBySizeOnly(header, data, k) ==
    /\ \A j \in 0..(k - 1) : SlabDecodes(header, data, j)
    /\ DirectoryEntry_from_raw(
           header, DirectoryEntryRaw_parse(WithSizeField(SlabAt(data, k), Zeros(8))), k).kind
           = "Ok"

\* C14: a Storage slab whose 64-bit stream_size field is not zero fails the
\* open with the directory error of the storage size check, in version-3 and
\* in version-4 files.
C14_StorageSize ==
    [][ParseStep /\ HeaderSectorAccepted(read) /\ DirectoryDataOf(read).kind = "Ok" =>
          LET header == HeaderOf(read)
              data == DirectoryDataOf(read).val
          IN \A k \in 0..((Len(data) \div SIZE_OF_DIRECTORY_ENTRY) - 1) :
                 /\ TypeAt(data, k) = 1
                 /\ Slice(SlabAt(data, k), 120, 128) # Zeros(8)
                 /\ FailsBySizeOnly(header, data, k)
                 => error' = StorageSizeNotZero]_vars

\* the bytes of the stream_size field that count: all eight in a version-4
\* file, the lower four in a version-3 file
SizeBytesRead(header, slab) ==
    IF header.major_version = MAJOR_VERSION_3_VALUE
    THEN Slice(slab, 120, 124)
    ELSE Slice(slab, 120, 128)

\* C14 as the code has it: a Storage slab fails the open with the directory
\* error of the storage size check when the bytes of its stream_size field
\* that count are not all zero; in a version-3 file the upper four bytes are
\* ignored, and a Storage slab whose lower four bytes are zero decodes.
C14_StorageSizeRead ==
    [][ParseStep /\ HeaderSectorAccepted(read) /\ DirectoryDataOf(read).kind = "Ok" =>
          LET header == HeaderOf(read)
              data == DirectoryDataOf(read).val
          IN \A k \in 0..((Len(data) \div SIZE_OF_DIRECTORY_ENTRY) - 1) :
                 TypeAt(data, k) = 1 /\ FailsBySizeOnly(header, data, k)
                 => IF SizeBytesRead(header, SlabAt(data, k)) = Zeros(Len(SizeBytesRead(header, SlabAt(data, k))))
                    THEN SlabDecodes(header, data, k)
                    ELSE error' = StorageSizeNotZero]_vars

\* the open failed with the error of the storage size check
C14_Witness ==
    /\ pc = "failed"
    /\ error = StorageSizeNotZero

\* C15: a RootStorage slab whose stream_size is no multiple of 64 fails the
\* open with the directory error of the root size check.
C15_RootSize ==
    [][ParseStep /\ HeaderSectorAccepted(read) /\ DirectoryDataOf(read).kind = "Ok" =>
          LET header == HeaderOf(read)
              data == DirectoryDataOf(read).val
          IN \A k \in 0..((Len(data) \div SIZE_OF_DIRECTORY_ENTRY) - 1) :
                 /\ TypeAt(data, k) = 5
                 /\ SlabAt(data, k)[121] % 64 # 0
                 /\ FailsBySizeOnly(header, data, k)
                 => error' = RootSizeNotTiled]_vars

\* the open failed with the error of the root size check
C15_Witness ==
    /\ pc = "failed"
    /\ error = RootSizeNotTiled

HeaderStep == pc = "header" /\ pc' = "parsed"

\* the conditions on a 512-byte header h, each as the format states it
MagicOk(h) == Slice(h, 0, 8) = <<208, 207, 17, 224, 161, 177, 26, 225>>

ClassIdOk(h) == Slice(h, 8, 24) = Zeros(16)

MinorOk(h) == u16_from_le_bytes(Slice(h, 24, 26)) = 62

MajorOf(h) == u16_from_le_bytes(Slice(h, 26, 28))

MajorOk(h) == MajorOf(h) \in {3, 4}

ByteOrderOk(h) == Slice(h, 28, 30) = <<254, 255>>

SectorShiftOk(h) ==
    /\ MajorOf(h) = 3 => u16_from_le_bytes(Slice(h, 30, 32)) = 9
    /\ MajorOf(h) = 4 => u16_from_le_bytes(Slice(h, 30, 32)) = 12

MiniShiftOk(h) == u16_from_le_bytes(Slice(h, 32, 34)) = 6

ReservedOk(h) == Slice(h, 34, 40) = Zeros(6)

DirectorySectorsOk(h) == MajorOf(h) = 3 => Slice(h, 40, 44) = Zeros(4)

CutoffOk(h) == u32_from_le_bytes(Slice(h, 56, 60)) = <<0, 4096>>

HeaderWellFormed(h) ==
    /\ MagicOk(h) /\ ClassIdOk(h) /\ MinorOk(h) /\ MajorOk(h) /\ ByteOrderOk(h)
    /\ SectorShiftOk(h) /\ MiniShiftOk(h) /\ ReservedOk(h)
    /\ DirectorySectorsOk(h) /\ CutoffOk(h)

\* C16: for every 512-byte header, parse_raw_header succeeds if and only if
\* the magic, the zero class id, the minor version 0x003E, a major version of
\* 3 or 4, the byte-order mark FE FF, the sector shift of the major version,
\* the mini-sector shift 6, the zero reserved bytes, the zero directory-sector
\* count of a version-3 file and the cutoff 0x1000 all hold; no other field
\* has a say.
C16_HeaderAcceptedIff ==
    [][HeaderStep /\ Len(read) = HEADER_LENGTH =>
          (ret'.out.kind = "Ok" <=> HeaderWellFormed(read))]_vars

\* parse_raw_header accepted a header whose copied fields are all filled with
\* the byte AB
C16_Witness ==
    /\ pc = "parsed"
    /\ ret.out.kind = "Ok"
    /\ Slice(ret.header, 44, 56) = [i \in 1..12 |-> 171]
    /\ ret.out.val.sector_allocation_table_len = <<171, 171, 171, 171>>
    /\ ret.out.val.sector_allocation_table_head[109] = <<43947, 43947>>

\* the error of the first condition, in the order magic, class id, minor
\* version, major version, byte-order mark, sector shift, mini-sector shift,
\* reserved bytes, directory-sector count, cutoff, that h does not meet
FirstViolated(h) ==
    IF ~MagicOk(h)
    THEN Err([type |-> "OleInvalidHeader", sub |-> "WrongMagicBytes",
              found |-> Slice(h, 0, 8)])
    ELSE IF ~ClassIdOk(h) THEN HeaderParsing("class_identifier")
    ELSE IF ~MinorOk(h) THEN HeaderParsing("minor_version")
    ELSE IF ~MajorOk(h) THEN HeaderParsing("major_version")
    ELSE IF ~ByteOrderOk(h) THEN HeaderParsing("byte_order_identifier")
    ELSE IF ~SectorShiftOk(h) THEN HeaderParsing("sector_size")
    ELSE IF ~MiniShiftOk(h) THEN HeaderParsing("mini_sector_size")
    ELSE IF ~ReservedOk(h) THEN HeaderParsing("first_reserved")
    ELSE IF ~DirectorySectorsOk(h) THEN HeaderParsing("directory_sectors_len")
    ELSE HeaderParsing("standard_stream_min_size")

\* C17: a 512-byte header that fails several of the header checks is rejected
\* with the error of the first failed check in the order magic, class id,
\* minor version, major version, byte-order mark, sector shift, mini-sector
\* shift, reserved bytes, directory-sector count, cutoff.
C17_FirstViolatedCheck ==
    [][HeaderStep /\ Len(read) = HEADER_LENGTH /\ ~HeaderWellFormed(read) =>
          ret'.out = FirstViolated(read)]_vars

\* a header with a wrong magic and a wrong minor version was rejected with
\* WrongMagicBytes
C17_Witness ==
    /\ pc = "parsed"
    /\ ~MagicOk(ret.header)
    /\ ~MinorOk(ret.header)
    /\ ret.out.kind = "Err"
    /\ ret.out.err.sub = "WrongMagicBytes"

\* C18: the constructor is all-or-nothing and returns the first structural
\* error in the order header, sector store, FAT, mini-FAT, directory,
\* mini-stream: a source that is not opened gives an error and no file object;
\* a rejected header gives the header's error whatever follows; a truncated
\* last sector gives UnexpectedEof whatever the DIFAT length and the directory
\* hold; a DIFAT length that is not zero gives CurrentlyUnimplemented whatever
\* the later stages would find.
C18_FirstErrorInOrder ==
    [][ParseStep =>
          /\ pc' # "open" => file' = NoFile /\ error'.kind = "Err"
          /\ Len(read) >= HEADER_LENGTH
                /\ parse_raw_header(SubSeq(read, 1, HEADER_LENGTH)).kind # "Ok"
                => error' = parse_raw_header(SubSeq(read, 1, HEADER_LENGTH))
          /\ HeaderSectorAccepted(read) /\ ~WholeSectors(read)
                => error'.kind = "Err" /\ error'.err.type = "OleUnexpectedEof"
          /\ HeaderSectorAccepted(read) /\ WholeSectors(read)
                /\ DifatLenOf(read) # <<0, 0>>
                => error' = Err([type |-> "CurrentlyUnimplemented"])]_vars

\* C19: once the file object exists no read operation changes it, whatever the
\* other readers are doing, and a call that ends returns what the operation
\* gives on the file object as parse built it.
C19_ReadersLeaveFile ==
    [][pc = "open" =>
          /\ pc' = "open"
          /\ file' = file
          /\ \A r \in Readers :
                 ret[r] # NoCall /\ ret[r].out = Running /\ ret'[r] # ret[r]
                 => ret'[r].out = ResultOf(file', ret[r].call)]_vars

\* a reader got the bytes of a stream while the call of another reader was
\* still running
C19_Witness ==
    /\ pc = "open"
    /\ \E r1, r2 \in Readers :
           /\ r1 # r2
           /\ ret[r1] # NoCall /\ ret[r1].out = Running
           /\ ret[r2] # NoCall /\ ret[r2].call.op = "open_stream"
           /\ ret[r2].out.kind = "Ok" /\ Len(ret[r2].out.val) > 0

\* C20: the path resolution of every open_stream call comes to an end,
\* whatever links the directory entries of the file hold.
C20_PathResolutionEnds ==
    CalledOpenStream => find_stream(file, ret.path).kind # "Hang"

\* the first stream of the file whose lower-cased name is a document name
FirstRecognised == FirstDocument(list_streams(file))

\* bit 8 of the little-endian 16-bit word at byte offset 10
FibEncryptedBit(stream) == (u16_from_le_bytes(Slice(stream, 10, 12)) \div 256) % 2 = 1

\* C21: in a file whose first recognised stream is WordDocument (names compared
\* without case), the stored encrypted flag equals bit 8 of the little-endian
\* 16-bit word at byte offset 10 of that stream, and is_encrypted() returns the
\* stored flag.
C21_WordEncrypted ==
    pc = "open" /\ IsSome(FirstRecognised)
        /\ to_lowercase(Unwrap(FirstRecognised)) = WORD_DOC_STR
    => /\ open_stream(file, <<Unwrap(FirstRecognised)>>).kind = "Ok"
       /\ file.encrypted
              = FibEncryptedBit(open_stream(file, <<Unwrap(FirstRecognised)>>).val)
       /\ ret.op = "is_encrypted" => ret.out = Ok(file.encrypted)

\* is_encrypted() returned true on a Word document
C21_Witness ==
    /\ pc = "open"
    /\ IsSome(FirstRecognised)
    /\ to_lowercase(Unwrap(FirstRecognised)) = WORD_DOC_STR
    /\ ret.op = "is_encrypted"
    /\ ret.out = Ok(TRUE)

\* the records of a BIFF stream from byte `pos` on: a two-byte number, a
\* two-byte size and that many payload bytes each, as long as whole records
\* follow
RECURSIVE RecordsFrom(_, _)
RecordsFrom(stream, pos) ==
    IF pos + 4 > Len(stream) THEN <<>>
    ELSE LET size == stream[pos + 3] + 256 * stream[pos + 4] IN
         IF pos + 4 + size > Len(stream) THEN <<>>
         ELSE <<[num |-> stream[pos + 1] + 256 * stream[pos + 2],
                 payload |-> SubSeq(stream, pos + 5, pos + 4 + size)]>>
              \o RecordsFrom(stream, pos + 4 + size)

\* the scan finds a FilePass record (number 0x2F), and the first it finds has
\* the payload bytes 01 00 in front
FilePassRc4(stream) ==
    LET records == RecordsFrom(stream, 0)
        found == {i \in 1..Len(records) : records[i].num = 47}
    IN /\ found # {}
       /\ LET first == records[CHOOSE i \in found : \A j \in found : i <= j] IN
          Len(first.payload) >= 2 /\ SubSeq(first.payload, 1, 2) = <<1, 0>>

\* C22: in a file whose first recognised stream is Workbook, the stored
\* encrypted flag is true exactly when the scan of the BIFF records of that
\* stream finds a FilePass record (number 0x2F) whose first two payload bytes
\* are 01 00, false when it finds none, and is_encrypted() returns the flag.
C22_ExcelEncrypted ==
    pc = "open" /\ IsSome(FirstRecognised)
        /\ to_lowercase(Unwrap(FirstRecognised)) = EXCEL_STR
    => /\ open_stream(file, <<Unwrap(FirstRecognised)>>).kind = "Ok"
       /\ file.encrypted = FilePassRc4(open_stream(file, <<Unwrap(FirstRecognised)>>).val)
       /\ ret.op = "is_encrypted" => ret.out = Ok(file.encrypted)

\* is_encrypted() returned true on a workbook
C22_Witness ==
    /\ pc = "open"
    /\ IsSome(FirstRecognised)
    /\ to_lowercase(Unwrap(FirstRecognised)) = EXCEL_STR
    /\ ret.op = "is_encrypted"
    /\ ret.out = Ok(TRUE)

\* C23: for every 32-byte array b, PackedWordHeader::unpack(b) succeeds and
\* packing the unpacked header gives b again; the f_encrypted field is the
\* bit that the encryption check reads.
C23_PackUnpack ==
    pc = "packed" =>
        /\ ret.unpacked.kind = "Ok"
        /\ ret.packed = Ok(ret.bytes)
        /\ ret.unpacked.val.first_flags.f_encrypted = WordHeaderFEncrypted(ret.bytes)

\* the array of the test was unpacked and packed, with f_encrypted set and
\* c_quick_saves not zero
C23_Witness ==
    /\ pc = "packed"
    /\ ret.bytes[1] = 236
    /\ ret.unpacked.kind = "Ok"
    /\ ret.unpacked.val.first_flags.f_encrypted
    /\ ret.unpacked.val.first_flags.c_quick_saves = 10
    /\ ret.unpacked.val.second_flags.f_spare_0 = 7
    /\ ~ret.unpacked.val.first_flags.f_dot

\* the positions a link of the entry at position e leads to
LinkTo(link) ==
    IF IsSome(link) /\ U32Below(Unwrap(link), Len(Entries))
    THEN {AsIndex(Unwrap(link)) + 1} ELSE {}

\* the sibling tree that starts at the positions `set`
RECURSIVE SiblingClosure(_)
SiblingClosure(set) ==
    LET more == set \cup UNION {LinkTo(Entries[e].left_sibling_id)
                                   \cup LinkTo(Entries[e].right_sibling_id) : e \in set}
    IN IF more = set THEN set ELSE SiblingClosure(more)

\* the children of the storage at position e
ChildrenOf(e) == SiblingClosure(LinkTo(Entries[e].child_id))

\* the child/sibling links form a tree under entry 0 that holds every entry
\* once, and the names within each storage are unique
WellFormedTree ==
    /\ Entries # <<>>
    /\ \A e \in 1..Len(Entries) :
          \A link \in {Entries[e].child_id, Entries[e].left_sibling_id,
                        Entries[e].right_sibling_id} :
              IsSome(link) => LinkTo(link) # {}
    /\ \A e \in 1..Len(Entries) : 1 \notin ChildrenOf(e)
    /\ \A e \in 2..Len(Entries) : \E s \in 1..Len(Entries) : e \in ChildrenOf(s)
    /\ \A s, t \in 1..Len(Entries) : s # t => ChildrenOf(s) \cap ChildrenOf(t) = {}
    /\ \A s \in 1..Len(Entries) : \A e, f \in ChildrenOf(s) :
          Entries[e].name = Entries[f].name => e = f

\* the entry a path designates: the child named by the last segment of the
\* storage reached by the segments before it, starting at the storage `s`
RECURSIVE Designated(_, _)
Designated(s, stream_path) ==
    LET hits == {e \in ChildrenOf(s) : Entries[e].name = stream_path[1]} IN
    IF hits = {} THEN None
    ELSE IF Len(stream_path) = 1 THEN Some(CHOOSE e \in hits : TRUE)
    ELSE Designated(CHOOSE e \in hits : TRUE, Tail(stream_path))

\* C24: in a file whose directory is a well-formed tree with names unique
\* within each storage, every path resolves to the entry it designates from
\* the children of the root storage, and to nothing when it designates none.
C24_PathDesignates ==
    pc = "open" /\ WellFormedTree =>
        \A stream_path \in Paths \ {<<>>} :
            find_stream(file, stream_path) = Ok(Designated(1, stream_path))

\* the file object of a source after the FAT, the mini-FAT and the directory
\* have been built (or the outcome of the stage that stops before)
AfterFat(bytes) ==
    Try(ReadSectors(SubSeq(bytes, SectorSizeOf(bytes) + 1, Len(bytes)), SectorSizeOf(bytes)),
        LAMBDA sectors :
        initialize_sector_allocation_table(
            [header |-> HeaderOf(bytes),
             sectors |-> sectors,
             sector_allocation_table |-> <<>>,
             short_sector_allocation_table |-> <<>>,
             directory_stream_data |-> <<>>,
             directory_entries |-> <<>>,
             mini_stream |-> <<>>,
             file_type |-> "Generic",
             encrypted |-> FALSE]))

AfterMiniFat(bytes) ==
    Try(AfterFat(bytes), LAMBDA s : initialize_short_sector_allocation_table(s))

AfterDirectory(bytes) ==
    Try(AfterMiniFat(bytes), LAMBDA s : initialize_directory_stream(s))

\* the chain s, table[s], ... comes to UNALLOCATED_SECTOR, as its head or as a
\* successor, through indices of `blocks` and `table`, before it comes to
\* CHAIN_END or to a sector of `seen` again
RECURSIVE MeetsUnallocated(_, _, _, _)
MeetsUnallocated(blocks, table, s, seen) ==
    IF s = UNALLOCATED_SECTOR THEN TRUE
    ELSE IF s = CHAIN_END \/ s \in seen THEN FALSE
    ELSE /\ U32Below(s, Len(blocks))
         /\ U32Below(s, Len(table))
         /\ MeetsUnallocated(blocks, table, table[AsIndex(s) + 1], seen \cup {s})

FatWalkMeetsUnallocated(self, s) ==
    MeetsUnallocated(self.sectors, self.sector_allocation_table, s, {})

\* one of the three walks of the constructor comes to UNALLOCATED_SECTOR
OpenMeetsUnallocated(bytes) ==
    \/ /\ AfterFat(bytes).kind = "Ok"
       /\ HeaderOf(bytes).short_sector_allocation_table_len # <<0, 0>>
       /\ HeaderOf(bytes).short_sector_allocation_table_first_sector # CHAIN_END
       /\ FatWalkMeetsUnallocated(AfterFat(bytes).val,
              HeaderOf(bytes).short_sector_allocation_table_first_sector)
    \/ /\ AfterMiniFat(bytes).kind = "Ok"
       /\ FatWalkMeetsUnallocated(AfterMiniFat(bytes).val,
              HeaderOf(bytes).sector_allocation_table_first_sector)
    \/ /\ AfterDirectory(bytes).kind = "Ok"
       /\ AfterDirectory(bytes).val.directory_entries # <<>>
       /\ IsSome(AfterDirectory(bytes).val.directory_entries[1].starting_sector_location)
       /\ FatWalkMeetsUnallocated(AfterDirectory(bytes).val,
              Unwrap(AfterDirectory(bytes).val.directory_entries[1].starting_sector_location))

\* the read of the stream that `stream_path` resolves to comes to
\* UNALLOCATED_SECTOR
ReadMeetsUnallocated(stream_path) ==
    /\ pc = "open"
    /\ IsSome(Resolved(stream_path))
    /\ Unwrap(Resolved(stream_path)).object_type = "Stream"
    /\ IsSome(Unwrap(Resolved(stream_path)).starting_sector_location)
    /\ LET e == Unwrap(Resolved(stream_path))
           mini == U64Less(e.stream_size, U32AsU64(file.header.standard_stream_min_size))
           blocks == IF mini THEN file.mini_stream ELSE file.sectors
           table == IF mini THEN file.short_sector_allocation_table
                    ELSE file.sector_allocation_table
       IN MeetsUnallocated(blocks, table, Unwrap(e.starting_sector_location), {})

\* C25: outside the DIFAT, UNALLOCATED_SECTOR met as the head or as a successor
\* of a chain is a structural error: an open whose mini-FAT build, directory
\* walk or mini-stream build meets it fails with an error value, and so does a
\* stream read that meets it.
C25_UnallocatedIsError ==
    [][/\ ParseStep /\ HeaderSectorAccepted(read) /\ OpenMeetsUnallocated(read)
           => pc' = "failed"
       /\ ret = NoCall /\ ret'.op = "open_stream" /\ ReadMeetsUnallocated(ret'.path)
           => ret'.out.kind = "Err"]_vars

\* the header says there is no mini-FAT
NoMiniFat ==
    \/ file.header.short_sector_allocation_table_len = <<0, 0>>
    \/ file.header.short_sector_allocation_table_first_sector = CHAIN_END

\* bytes read four at a time as little-endian 32-bit values
QuadsLE(bytes) ==
    [k \in 1..(Len(bytes) \div 4) |-> u32_from_le_bytes(SubSeq(bytes, 4 * k - 3, 4 * k))]

\* C26: after open, a header with mini-FAT length 0 or mini-FAT first sector
\* CHAIN_END gives an empty mini-FAT and an empty mini-stream, whatever the
\* root entry holds; any other header gives as mini-FAT the little-endian
\* 32-bit values of the sectors of the FAT chain from the mini-FAT first sector.
C26_MiniFat ==
    pc = "open" =>
        IF NoMiniFat
        THEN file.short_sector_allocation_table = <<>> /\ file.mini_stream = <<>>
        ELSE file.short_sector_allocation_table
                 = QuadsLE(ChainConcat(file.sectors, file.sector_allocation_table,
                       file.header.short_sector_allocation_table_first_sector))

\* the entries of the header's DIFAT array before its first UNALLOCATED_SECTOR
\* or CHAIN_END entry
BeforeSentinel(head) ==
    LET stops == {i \in 1..Len(head) : head[i] \in {UNALLOCATED_SECTOR, CHAIN_END}} IN
    IF stops = {} THEN head
    ELSE SubSeq(head, 1, (CHOOSE i \in stops : \A j \in stops : i <= j) - 1)

\* the sectors named by `ids`, one after the other
RECURSIVE SectorsNamed(_, _)
SectorsNamed(ids, sectors) ==
    IF ids = <<>> THEN <<>>
    ELSE sectors[AsIndex(Head(ids)) + 1] \o SectorsNamed(Tail(ids), sectors)

\* C27: after open, the FAT is the little-endian 32-bit values of the sectors
\* named by the 109 DIFAT entries of the header before the first UNALLOCATED or
\* CHAIN_END entry, in that order; entries after that one are ignored, and the
\* FAT holds sector_size / 4 values for each entry before it.
C27_FatFromDifat ==
    pc = "open" =>
        LET head == file.header.sector_allocation_table_head
            named == BeforeSentinel(head)
        IN /\ Len(head) = 109
           /\ file.sector_allocation_table = QuadsLE(SectorsNamed(named, file.sectors))
           /\ Len(file.sector_allocation_table)
                  = (file.header.sector_size \div 4) * Len(named)

\* a file is open whose DIFAT array names a sector after its first sentinel
C27_Witness ==
    /\ pc = "open"
    /\ file.header.sector_allocation_table_head[2] = CHAIN_END
    /\ file.header.sector_allocation_table_head[3] = <<0, 0>>
    /\ Len(file.sector_allocation_table) = 128

\* the size the file uses for an entry whose stream_size field holds `raw`:
\* the field modulo 2^32 in a version-3 file, the whole field in a version-4
\* file (16-bit limbs, the most significant first)
UsedSize(raw) ==
    IF file.header.major_version = MAJOR_VERSION_3_VALUE
    THEN <<0, 0, raw[4] * 256 + raw[3], raw[2] * 256 + raw[1]>>
    ELSE <<raw[8] * 256 + raw[7], raw[6] * 256 + raw[5],
           raw[4] * 256 + raw[3], raw[2] * 256 + raw[1]>>

SizeField(e) == Slice(SlabOf(e), 120, 128)

\* the chain s, table[s], ... comes to CHAIN_END through indices of `blocks`
\* and `table` without coming to a sector of `seen` again
RECURSIVE EndsUnseen(_, _, _, _)
EndsUnseen(blocks, table, s, seen) ==
    IF s = CHAIN_END THEN TRUE
    ELSE /\ s \notin seen
         /\ U32Below(s, Len(blocks))
         /\ U32Below(s, Len(table))
         /\ EndsUnseen(blocks, table, table[AsIndex(s) + 1], seen \cup {s})

\* the chain from s ends, and it ends with the block that holds byte N
ChainFits(blocks, table, s, N) ==
    /\ EndsUnseen(blocks, table, s, {})
    /\ N[1] = 0 /\ N[2] = 0 /\ N[3] = 0 /\ N[4] > 0
    /\ LET all == ChainConcat(blocks, table, s) IN
       /\ N[4] <= Len(all)
       /\ \A b \in 1..Len(blocks) : Len(all) - N[4] < Len(blocks[b])

\* C28: in a version-3 file every entry's stream_size is its size field
\* modulo 2^32, in a version-4 file the whole 64-bit field; the Storage and
\* RootStorage size checks hold of that value, and a stream read takes the
\* mini-FAT or the FAT path by that value.
C28_SizeMasked ==
    pc = "open" =>
        /\ \A i \in 1..Len(Entries) :
              LET used == UsedSize(SizeField(Entries[i])) IN
              /\ Entries[i].stream_size = used
              /\ Entries[i].object_type = "Storage" => used = <<0, 0, 0, 0>>
              /\ Entries[i].object_type = "RootStorage" => used[4] % 64 = 0
        /\ ResolvedStream =>
              LET e == Unwrap(Resolved(ret.path))
                  N == UsedSize(SizeField(e))
                  mini == U64Less(N, <<0, 0, 0, 4096>>)
                  blocks == IF mini THEN file.mini_stream ELSE file.sectors
                  table == IF mini THEN file.short_sector_allocation_table
                           ELSE file.sector_allocation_table
                  s == Unwrap(e.starting_sector_location)
              IN ChainFits(blocks, table, s, N) =>
                     ret.out = Ok(SubSeq(ChainConcat(blocks, table, s), 1, N[4]))

\* a stream of a version-3 file whose size field holds 2^32 + 100 was read
\* along the mini-FAT and gave 100 bytes
C28_Witness ==
    /\ pc = "open"
    /\ file.header.major_version = MAJOR_VERSION_3_VALUE
    /\ ResolvedStream
    /\ SizeField(Unwrap(Resolved(ret.path))) = <<100, 0, 0, 0, 1, 0, 0, 0>>
    /\ ret.out.kind = "Ok" /\ Len(ret.out.val) = 100

\* the ids an entry holds
LinksOf(e) ==
    {link \in {e.child_id, e.left_sibling_id, e.right_sibling_id} : IsSome(link)}

\* slab k of the directory stream of the file is allocated
SlabAllocated(k) == k < Slabs /\ TypeAt(file.directory_stream_data, k) # 0

\* C29: after open, the entry at position i of the directory array is the one
\* decoded from slab i, and an id k held by an entry, looked up as the path
\* resolver does, gives the entry decoded from slab k, also when unallocated
\* slabs come before slab k.
C29_PositionIsSlab ==
    pc = "open" =>
        /\ \A i \in 1..Len(Entries) : Entries[i].index = i - 1
        /\ \A i \in 1..Len(Entries) : \A link \in LinksOf(Entries[i]) :
              U32Below(Unwrap(link), Slabs) /\ SlabAllocated(AsIndex(Unwrap(link)))
              => /\ LookupId(Entries, Unwrap(link)).kind = "Ok"
                 /\ Entries[LookupId(Entries, Unwrap(link)).val].index
                        = AsIndex(Unwrap(link))

\* the outcome of a walk that comes back to a sector it has visited
ChainCycle(r) ==
    r.kind = "Hang" /\ r.why \in {"sector chain cycle", "directory chain cycle"}

\* C30: every sector-chain walk comes to an end: the mini-FAT build, the
\* directory-stream walk and the mini-stream build of open, and the FAT or
\* mini-FAT walk of open_stream, whatever the allocation tables hold, cycles
\* included.
C30_ChainWalksEnd ==
    /\ pc = "hung" => ~ChainCycle(error)
    /\ CalledOpenStream => ~ChainCycle(ret.out)

====
